---- MODULE Spec2Model ----
(***************************************************************************)
(* Grounded retrieval and citation subsystem of google-keep-vibe-search:   *)
(* the intent router (app/services/router_agent.py), the citation          *)
(* extractor (app/services/citation_service.py), the streaming chat        *)
(* protocol (app/services/chat_service.py), the hybrid scorer and its      *)
(* embedding cache (app/search.py) and the structure-aware chunker         *)
(* (app/services/chunking_service.py).                                     *)
(*                                                                         *)
(* Python strings are modelled as sequences of one-character strings, so   *)
(* that concatenation, strip() and comparison are computed.  A Python dict *)
(* is a TLA+ record whose DOMAIN is the set of keys that are present.      *)
(* Optional[int] is the empty sequence (None) or a one-element sequence.   *)
(* Relevance scores are integers (a fixed-point scale of the floats).      *)
(***************************************************************************)
EXTENDS Integers, Sequences, FiniteSets, TLC

VARIABLES
    \* ---- retrieval backends (the state the router reads) ----
    vector_hits,       \* ranking of notes for the query: Seq([id, score])
    lancedb_service,   \* [present, available]
    chunking_service,  \* [present]
    graph_service,     \* [present, is_ready, nodes]
    raptor_service,    \* [present, tree_nodes]
    \* ---- RouterAgent.retrieve_and_ground: the last call ----
    ret,               \* [called, intent, max_results, raised, items, calls]
    \* ---- extract_grounded_citations: the last call ----
    cite,              \* [called, response_text, context_items, citations]
    \* ---- ChatService.stream_chat_with_protocol: one turn ----
    pc,                \* position of the generator
    turn,              \* the request being served
    context_items,     \* the grounded items of this turn
    prepared,          \* the message list sent to the LLM
    events,            \* the events yielded so far
    full_response,     \* the accumulated response text (a token sequence)
    upstream,          \* what the LLM stream has delivered
    lines_read,        \* number of upstream lines consumed
    \* ---- VibeSearch (app/search.py) ----
    notes,             \* the image-match annotations on self.notes
    last_search,       \* the last call of VibeSearch.search
    \* ---- embedding and notes caches, constructors and loaders ----
    cache_files,       \* embeddings.npz and notes_hash.json
    loaded,            \* the last VibeSearch(...) or NoteService.load_notes(...)
    \* ---- ChunkingService.build_chunks: the last call ----
    chunked,           \* [called, title, paragraphs, chunks]
    \* ---- ChunkingService: chunk list, embeddings and their cache ----
    chunk_store,       \* [chunks, chunk_embeddings, files, read]
    \* ---- search requests running in worker threads on one VibeSearch ----
    in_flight,         \* per thread: [pc, image_matches, image_score_map, results]
    \* ---- calls of the pure functions ----
    fn                 \* [called, op, arg, result]

vars == <<vector_hits, lancedb_service, chunking_service, graph_service,
          raptor_service, ret, cite, pc, turn, context_items, prepared,
          events, full_response, upstream, lines_read, notes, last_search,
          cache_files, loaded, chunked, chunk_store, in_flight, fn>>

backend_vars == <<vector_hits, lancedb_service, chunking_service,
                  graph_service, raptor_service>>

chat_vars == <<pc, turn, context_items, prepared, events, full_response,
               upstream, lines_read>>

search_vars == <<notes, last_search>>

cache_vars == <<cache_files, loaded>>

\* the state of the note index: hybrid search, caches, chunker, pure calls
index_vars == <<search_vars, cache_vars, chunked, chunk_store, in_flight, fn>>

-----------------------------------------------------------------------------
(* Bounds of the model *)

\* rows a graph index or a summary tree holds for the query
MaxRows == 2
\* largest max_results the router is called with
MaxResultsBound == 2
\* tokens of a response given to extract_grounded_citations
MaxTokens == 3
\* context items given to extract_grounded_citations
MaxContext == 2
\* upstream lines consumed in one chat turn
MaxLines == 3
\* notes of an export handed to VibeSearch
MaxCorpus == 2
\* words of a query handed to the classifier
MaxWords == 3
\* paragraphs of a note handed to the chunker
MaxParas == 3

NoteIds == {<<"a">>, <<"b">>}
Scores == {1, 2}

-----------------------------------------------------------------------------
(* Strings and dicts *)

EmptyStr == << >>
None == << >>
Some(v) == <<v>>

\* dict.get(key, default)
Get(d, key, default) == IF key \in DOMAIN d THEN d[key] ELSE default

\* dict.get(key) for an Optional[int] field: None when the key is missing
GetOpt(d, key) == IF key \in DOMAIN d THEN Some(d[key]) ELSE None

\* str(int) for the chunk indices of the model
IntToStr(i) ==
    CASE i = 0 -> <<"0">>
      [] i = 1 -> <<"1">>
      [] i = 2 -> <<"2">>
      [] OTHER -> <<"9">>

RECURSIVE LStrip(_)
LStrip(s) == IF s # << >> /\ Head(s) = " " THEN LStrip(Tail(s)) ELSE s

RECURSIVE RStrip(_)
RStrip(s) ==
    IF s # << >> /\ s[Len(s)] = " " THEN RStrip(SubSeq(s, 1, Len(s) - 1)) ELSE s

\* str.strip()
Strip(s) == RStrip(LStrip(s))

\* seq[:k]
Prefix(seq, k) == SubSeq(seq, 1, IF k < Len(seq) THEN k ELSE Len(seq))

Range(seq) == {seq[i] : i \in 1..Len(seq)}

Max(a, b) == IF a >= b THEN a ELSE b

-----------------------------------------------------------------------------
(* Notes of the corpus *)

TitleOf(id) == <<"T">> \o id
ContentOf(id) == <<"x">> \o id
\* the best-matching chunk of a note for the query
ChunkIndexOf(id) == IF id = <<"a">> THEN 0 ELSE 1

-----------------------------------------------------------------------------
(* The retrieval backends, as the router sees them.  Each search returns   *)
(* the top max_results rows of the backend's ranking for the query.        *)

\* LanceDBService.search_chunks: the best chunk per note, ranked by score
lancedb_search_chunks(max_results) ==
    Prefix([i \in 1..Len(vector_hits) |->
              [id |-> vector_hits[i].id,
               title |-> TitleOf(vector_hits[i].id),
               matched_chunk |-> ContentOf(vector_hits[i].id),
               chunk_index |-> ChunkIndexOf(vector_hits[i].id),
               start_char_idx |-> 0,
               end_char_idx |-> Len(ContentOf(vector_hits[i].id)),
               heading_trail |-> << >>,
               score |-> vector_hits[i].score]],
           max_results)

\* ChunkingService.search_chunks: a copy of the note with score,
\* matched_chunk and chunk_index, one row per note, ranked by score
chunking_search_chunks(max_results) ==
    Prefix([i \in 1..Len(vector_hits) |->
              [id |-> vector_hits[i].id,
               title |-> TitleOf(vector_hits[i].id),
               content |-> ContentOf(vector_hits[i].id),
               score |-> vector_hits[i].score,
               matched_chunk |-> ContentOf(vector_hits[i].id),
               chunk_index |-> ChunkIndexOf(vector_hits[i].id)]],
           max_results)

\* VibeSearch.search as the router's last fallback: note-level rows
search_service_search(max_results) ==
    Prefix([i \in 1..Len(vector_hits) |->
              [id |-> vector_hits[i].id,
               title |-> TitleOf(vector_hits[i].id),
               content |-> ContentOf(vector_hits[i].id),
               score |-> vector_hits[i].score]],
           max_results)

\* GraphRAGService.query_relations: rows carry note_id, never id
query_relations(max_results) ==
    IF ~graph_service.is_ready THEN << >>
    ELSE Prefix([i \in 1..Len(graph_service.nodes) |->
                   [text |-> ContentOf(graph_service.nodes[i].note_id),
                    score |-> graph_service.nodes[i].score,
                    source_type |-> "graphrag",
                    note_id |-> graph_service.nodes[i].note_id,
                    title |-> TitleOf(graph_service.nodes[i].note_id)]],
                max_results)

\* sorted(seq, key=score, reverse=True): Python's sort is stable
RECURSIVE InsertByScore(_, _, _)
InsertByScore(sorted, x, key) ==
    IF sorted = << >> THEN <<x>>
    ELSE IF Head(sorted)[key] >= x[key]
         THEN <<Head(sorted)>> \o InsertByScore(Tail(sorted), x, key)
         ELSE <<x>> \o sorted

RECURSIVE SortedDesc(_, _)
SortedDesc(seq, key) ==
    IF seq = << >> THEN << >>
    ELSE InsertByScore(SortedDesc(SubSeq(seq, 1, Len(seq) - 1), key),
                       seq[Len(seq)], key)

\* RAPTORService.is_ready
raptor_is_ready == Len(raptor_service.tree_nodes) > 0

\* RAPTORService.query_summaries: rows carry note_ids (plural) and no id
query_summaries(max_results) ==
    IF ~raptor_is_ready THEN << >>
    ELSE LET scored == Prefix(SortedDesc(raptor_service.tree_nodes, "score"),
                              max_results)
         IN [i \in 1..Len(scored) |->
               [text |-> scored[i].text,
                score |-> scored[i].score,
                level |-> scored[i].level,
                note_ids |-> scored[i].note_ids,
                source_type |-> "raptor"]]

-----------------------------------------------------------------------------
(* RouterAgent (app/services/router_agent.py)                              *)

QueryIntent == {"factual", "relational", "summary", "mixed"}

\* mutant: the chunk index is tested for truth, which chunk 0 fails
GroundedOfTruthyChunkIndex(r, source_type) ==
    LET note_id == Get(r, "id", Get(r, "note_id", EmptyStr))
    IN [citation_id |-> IF "chunk_index" \in DOMAIN r /\ r.chunk_index # 0
                        THEN note_id \o <<"_", "c">> \o IntToStr(r.chunk_index)
                        ELSE note_id,
        note_id |-> note_id,
        note_title |-> Get(r, "title", Get(r, "note_title", EmptyStr)),
        text |-> Get(r, "matched_chunk",
                     Get(r, "text", Get(r, "content", EmptyStr))),
        start_char_idx |-> GetOpt(r, "start_char_idx"),
        end_char_idx |-> GetOpt(r, "end_char_idx"),
        relevance_score |-> Get(r, "score", 0),
        source_type |-> source_type,
        heading_trail |-> Get(r, "heading_trail", << >>)]

\* one row of _results_to_grounded: a raw result dict to a GroundedContext
GroundedOf(r, source_type) ==
    LET note_id == Get(r, "id", Get(r, "note_id", EmptyStr))
        title == Get(r, "title", Get(r, "note_title", EmptyStr))
        text == Get(r, "matched_chunk",
                    Get(r, "text", Get(r, "content", EmptyStr)))
        score == Get(r, "score", 0)
        citation_id == IF "chunk_index" \in DOMAIN r
                       THEN note_id \o <<"_", "c">> \o IntToStr(r.chunk_index)
                       ELSE note_id
    IN [citation_id |-> citation_id,
        note_id |-> note_id,
        note_title |-> title,
        text |-> text,
        start_char_idx |-> GetOpt(r, "start_char_idx"),
        end_char_idx |-> GetOpt(r, "end_char_idx"),
        relevance_score |-> score,
        source_type |-> source_type,
        heading_trail |-> Get(r, "heading_trail", << >>)]

_results_to_grounded(results, source_type) ==
    [i \in 1..Len(results) |-> GroundedOf(results[i], source_type)]

\* mutant: the readiness flag of the graph backend is not consulted
_graph_available_ignoring_is_ready == graph_service.present

_graph_available == graph_service.present /\ graph_service.is_ready

_raptor_available == raptor_service.present /\ raptor_is_ready

_lancedb_available == lancedb_service.present /\ lancedb_service.available

\* A call of a backend method, as recorded in the call log
Call(svc, method, k) == [svc |-> svc, method |-> method, max_results |-> k]

\* The outcome of a router method: the items it returns, the backend calls it
\* made, and whether a backend call raised (the exception propagates)
Outcome(items, calls, raised) ==
    [items |-> IF raised THEN << >> ELSE items, calls |-> calls, raised |-> raised]

\* vec_raises: the vector backend's search raises (embedding or store error)
_retrieve_lancedb(max_results, vec_raises) ==
    IF _lancedb_available
    THEN Outcome(_results_to_grounded(lancedb_search_chunks(max_results), "lancedb"),
                 <<Call("lancedb_service", "search_chunks", max_results)>>,
                 vec_raises)
    ELSE IF chunking_service.present
    THEN Outcome(_results_to_grounded(chunking_search_chunks(max_results), "lancedb"),
                 <<Call("chunking_service", "search_chunks", max_results)>>,
                 vec_raises)
    ELSE Outcome(_results_to_grounded(search_service_search(max_results), "lancedb"),
                 <<Call("search_service", "search", max_results)>>,
                 vec_raises)

\* the supplementation loop of _retrieve_graphrag: seen_ids holds note ids and
\* grows with every appended item
RECURSIVE SupplementByNoteId(_, _, _)
SupplementByNoteId(grounded, seen_ids, lancedb_results) ==
    IF lancedb_results = << >> THEN grounded
    ELSE LET item == Head(lancedb_results)
         IN IF item.note_id \notin seen_ids
            THEN SupplementByNoteId(Append(grounded, item),
                                    seen_ids \cup {item.note_id},
                                    Tail(lancedb_results))
            ELSE SupplementByNoteId(grounded, seen_ids, Tail(lancedb_results))

_retrieve_graphrag(max_results, vec_raises) ==
    LET graph_results == query_relations(max_results)
        grounded == _results_to_grounded(graph_results, "graphrag")
        calls == <<Call("graph_service", "query_relations", max_results)>>
    IN IF Len(grounded) < max_results
       THEN LET remaining == max_results - Len(grounded)
                lancedb == _retrieve_lancedb(remaining, vec_raises)
                seen_ids == {grounded[i].note_id : i \in 1..Len(grounded)}
            IN Outcome(Prefix(SupplementByNoteId(grounded, seen_ids, lancedb.items),
                              max_results),
                       calls \o lancedb.calls, lancedb.raised)
       ELSE Outcome(Prefix(grounded, max_results), calls, FALSE)

\* the supplementation loop of _retrieve_raptor: seen_ids holds the citation
\* ids of the tree items and is not extended in the loop
RECURSIVE SupplementByCitationId(_, _, _)
SupplementByCitationId(grounded, seen_ids, lancedb_results) ==
    IF lancedb_results = << >> THEN grounded
    ELSE LET item == Head(lancedb_results)
         IN IF item.citation_id \notin seen_ids
            THEN SupplementByCitationId(Append(grounded, item), seen_ids,
                                        Tail(lancedb_results))
            ELSE SupplementByCitationId(grounded, seen_ids, Tail(lancedb_results))

_retrieve_raptor(max_results, vec_raises) ==
    LET raptor_results == query_summaries(max_results)
        grounded == _results_to_grounded(raptor_results, "raptor")
        calls == <<Call("raptor_service", "query_summaries", max_results)>>
    IN IF Len(grounded) < max_results
       THEN LET remaining == max_results - Len(grounded)
                lancedb == _retrieve_lancedb(remaining, vec_raises)
                seen_ids == {grounded[i].citation_id : i \in 1..Len(grounded)}
            IN Outcome(Prefix(SupplementByCitationId(grounded, seen_ids,
                                                     lancedb.items),
                              max_results),
                       calls \o lancedb.calls, lancedb.raised)
       ELSE Outcome(Prefix(grounded, max_results), calls, FALSE)

\* mutant: the deduplication loop keeps the last occurrence of a citation_id
RECURSIVE DedupKeepingLast(_, _, _)
DedupKeepingLast(all_results, seen, deduped) ==
    IF all_results = << >> THEN deduped
    ELSE LET item == Head(all_results)
             later == {all_results[i].citation_id : i \in 2..Len(all_results)}
         IN IF item.citation_id \notin later
            THEN DedupKeepingLast(Tail(all_results), seen, Append(deduped, item))
            ELSE DedupKeepingLast(Tail(all_results), seen, deduped)

\* the deduplication loop of _retrieve_mixed: first occurrence wins
RECURSIVE DedupByCitationId(_, _, _)
DedupByCitationId(all_results, seen, deduped) ==
    IF all_results = << >> THEN deduped
    ELSE LET item == Head(all_results)
         IN IF item.citation_id \notin seen
            THEN DedupByCitationId(Tail(all_results),
                                   seen \cup {item.citation_id},
                                   Append(deduped, item))
            ELSE DedupByCitationId(Tail(all_results), seen, deduped)

\* per_source = max(3, max_results // 3)
PerSource(max_results) == Max(3, max_results \div 3)

_retrieve_mixed(max_results, vec_raises) ==
    LET per_source == PerSource(max_results)
        lancedb == _retrieve_lancedb(per_source, vec_raises)
        graph_items ==
            IF _graph_available
            THEN _results_to_grounded(query_relations(per_source), "graphrag")
            ELSE << >>
        graph_calls ==
            IF _graph_available
            THEN <<Call("graph_service", "query_relations", per_source)>>
            ELSE << >>
        raptor_items ==
            IF _raptor_available
            THEN _results_to_grounded(query_summaries(per_source), "raptor")
            ELSE << >>
        raptor_calls ==
            IF _raptor_available
            THEN <<Call("raptor_service", "query_summaries", per_source)>>
            ELSE << >>
        all_results == lancedb.items \o graph_items \o raptor_items
        deduped == DedupByCitationId(all_results, {}, << >>)
    IN IF lancedb.raised
       THEN Outcome(<< >>, lancedb.calls, TRUE)
       ELSE Outcome(Prefix(SortedDesc(deduped, "relevance_score"), max_results),
                    lancedb.calls \o graph_calls \o raptor_calls, FALSE)

\* mutant: dispatch on the intent alone; a backend that is None raises
\* AttributeError when its query method is looked up
retrieve_and_ground_without_fallback(max_results, intent, vec_raises) ==
    IF intent = "relational"
    THEN IF graph_service.present
         THEN _retrieve_graphrag(max_results, vec_raises)
         ELSE Outcome(<< >>, << >>, TRUE)
    ELSE IF intent = "summary"
    THEN IF raptor_service.present
         THEN _retrieve_raptor(max_results, vec_raises)
         ELSE Outcome(<< >>, << >>, TRUE)
    ELSE IF intent = "mixed"
    THEN _retrieve_mixed(max_results, vec_raises)
    ELSE _retrieve_lancedb(max_results, vec_raises)

retrieve_and_ground(max_results, intent, vec_raises) ==
    IF intent = "relational" /\ _graph_available
    THEN _retrieve_graphrag(max_results, vec_raises)
    ELSE IF intent = "summary" /\ _raptor_available
    THEN _retrieve_raptor(max_results, vec_raises)
    ELSE IF intent = "mixed"
    THEN _retrieve_mixed(max_results, vec_raises)
    ELSE _retrieve_lancedb(max_results, vec_raises)

-----------------------------------------------------------------------------
(* States the backends can be in once the application has started          *)

SeqsUpTo(S, n) == UNION {[1..k -> S] : k \in 0..n}

\* one row per note, ranked by score (search_chunks groups by note id); the
\* model's rankings have no ties
VectorRankings ==
    {h \in SeqsUpTo([id : NoteIds, score : Scores], Cardinality(NoteIds)) :
        /\ \A i, j \in 1..Len(h) : i # j => h[i].id # h[j].id
        /\ \A i \in 1..Len(h) - 1 : h[i].score > h[i + 1].score}

\* lancedb_service / chunking_service as handed to RouterAgent.__init__
VectorSetups ==
    {<<[present |-> TRUE, available |-> TRUE], [present |-> TRUE]>>,
     <<[present |-> TRUE, available |-> FALSE], [present |-> TRUE]>>,
     <<[present |-> TRUE, available |-> FALSE], [present |-> FALSE]>>,
     <<[present |-> FALSE, available |-> FALSE], [present |-> FALSE]>>}

\* graph_service: None, constructed without an index, or with an index whose
\* retriever ranks the nodes for the query (several nodes may stem from one note)
GraphStates ==
    {[present |-> FALSE, is_ready |-> FALSE, nodes |-> << >>],
     [present |-> TRUE, is_ready |-> FALSE, nodes |-> << >>]}
    \cup {[present |-> TRUE, is_ready |-> TRUE, nodes |-> n] :
             n \in {m \in SeqsUpTo([note_id : NoteIds, score : Scores], MaxRows) :
                       \A i \in 1..Len(m) - 1 : m[i].score >= m[i + 1].score}}

\* raptor_service: None, or a tree (ready as soon as it holds a node)
RaptorStates ==
    {[present |-> FALSE, tree_nodes |-> << >>]}
    \cup {[present |-> TRUE, tree_nodes |-> t] :
             t \in SeqsUpTo([text : {<<"s">>}, score : Scores, level : {1},
                             note_ids : {<<"a">>}], MaxRows)}

InitBackends ==
    /\ vector_hits \in VectorRankings
    /\ \E s \in VectorSetups : lancedb_service = s[1] /\ chunking_service = s[2]
    /\ graph_service \in GraphStates
    /\ raptor_service \in RaptorStates

-----------------------------------------------------------------------------
(* VibeSearch.search (app/search.py): the hybrid scorer.  Scores are in    *)
(* hundredths; products of scores and weights keep their exact scale.      *)

\* app/config.py
SEARCH_THRESHOLD == 0
IMAGE_SEARCH_THRESHOLD == 20
IMAGE_SEARCH_WEIGHT == 30

\* the weights of the text score (70% semantic, 30% keyword)
SemanticWeight == 70
KeywordWeight == 30

\* positions in self.notes; note 0 has no text (it is not in note_indices)
\* and carries an image
AllNotes == {0, 1, 2}
note_indices == <<1, 2>>

\* _build_image_note_map: image path -> notes that contain it
image_note_map == [p |-> <<1>>, q |-> <<0, 2>>]

NoAnnotation == [has_matching_images |-> FALSE, matched_image |-> None]

\* self.notes before any search
Unannotated == [i \in AllNotes |-> NoAnnotation]

SearchIdle ==
    [called |-> FALSE, blank |-> FALSE, max_results |-> 0,
     semantic_scores |-> << >>, keyword_score_map |-> << >>,
     image_score_map |-> << >>, results |-> << >>]

\* _image_search, the loop over the notes of one matching image
RECURSIVE ImageNotes(_, _, _, _)
ImageNotes(note_idxs, image_path, score, st) ==
    IF note_idxs = << >> THEN st
    ELSE LET note_idx == Head(note_idxs)
         IN IF note_idx \notin DOMAIN st.note_scores
               \/ score > st.note_scores[note_idx]
            THEN ImageNotes(Tail(note_idxs), image_path, score,
                            [note_scores |-> (note_idx :> score) @@ st.note_scores,
                             notes |-> [st.notes EXCEPT
                                          ![note_idx].matched_image =
                                              Some(image_path)]])
            ELSE ImageNotes(Tail(note_idxs), image_path, score, st)

\* _image_search, the loop over the image matches
RECURSIVE ImageMatches(_, _)
ImageMatches(image_matches, st) ==
    IF image_matches = << >> THEN st
    ELSE LET m == Head(image_matches)
         IN IF m.image_path \in DOMAIN image_note_map
            THEN ImageMatches(Tail(image_matches),
                              ImageNotes(image_note_map[m.image_path],
                                         m.image_path, m.score, st))
            ELSE ImageMatches(Tail(image_matches), st)

\* _image_search: [note_scores, notes]; image_matches is what
\* ImageProcessor.search_images returned (empty without a processor)
_image_search(image_matches, ns) ==
    ImageMatches(image_matches, [note_scores |-> << >>, notes |-> ns])

\* mutant: a semantic score equal to the threshold is let through
should_include_at_threshold(semantic_score, keyword_score, image_score) ==
    \/ semantic_score >= SEARCH_THRESHOLD
    \/ keyword_score > 0
    \/ image_score > IMAGE_SEARCH_THRESHOLD

\* lines 331-335
should_include(semantic_score, keyword_score, image_score) ==
    \/ semantic_score > SEARCH_THRESHOLD
    \/ keyword_score > 0
    \/ image_score > IMAGE_SEARCH_THRESHOLD

\* lines 316-325
combined_score(semantic_score, keyword_score, image_score) ==
    LET text_score == semantic_score * SemanticWeight
                      + keyword_score * KeywordWeight
    IN IF image_score > 0
       THEN text_score * (100 - IMAGE_SEARCH_WEIGHT)
            + image_score * 100 * IMAGE_SEARCH_WEIGHT
       ELSE text_score * 100

\* lines 319-328: the has_matching_images flag of one note of note_indices
Flagged(ns, i, image_score) ==
    [ns EXCEPT ![note_indices[i]].has_matching_images = (image_score > 0)]

RECURSIVE FlagAll(_, _, _)
FlagAll(ns, i, image_score_map) ==
    IF i > Len(note_indices) THEN ns
    ELSE FlagAll(Flagged(ns, i, Get(image_score_map, note_indices[i], 0)),
                 i + 1, image_score_map)

\* lines 343-348: the included notes among the given scores
RECURSIVE Included(_)
Included(scores) ==
    IF scores = << >> THEN << >>
    ELSE IF Head(scores).should_include
    THEN <<[note_idx |-> Head(scores).note_idx,
            score |-> Head(scores).combined_score]>> \o Included(Tail(scores))
    ELSE Included(Tail(scores))

\* VibeSearch.search for a query that is not blank: [results, notes]
search(max_results, semantic_scores, keyword_score_map, image_matches, ns) ==
    LET img == _image_search(image_matches, ns)
        image_score_map == img.note_scores
        scores ==
            [i \in 1..Len(note_indices) |->
               LET note_idx == note_indices[i]
                   semantic_score == semantic_scores[i]
                   keyword_score == Get(keyword_score_map, note_idx, 0)
                   image_score == Get(image_score_map, note_idx, 0)
               IN [note_idx |-> note_idx,
                   combined_score |->
                       combined_score(semantic_score, keyword_score, image_score),
                   should_include |->
                       should_include(semantic_score, keyword_score, image_score)]]
        sorted == SortedDesc(scores, "combined_score")
    IN [results |-> Included(Prefix(sorted, max_results)),
        notes |-> FlagAll(img.notes, 1, image_score_map),
        image_score_map |-> image_score_map]

-----------------------------------------------------------------------------
(* Idle values of the note index                                           *)

FnIdle == [called |-> FALSE, op |-> "none", arg |-> << >>, result |-> << >>]

ChunkedIdle ==
    [called |-> FALSE, title |-> 0, paragraphs |-> << >>, chunks |-> << >>]

\* no embeddings.npz and no notes_hash.json yet
\* torn_embeddings / torn_hash: the file holds the beginning of a write that
\* did not finish
NoCacheFiles ==
    [exists |-> FALSE, hash |-> << >>, note_count |-> 0, model_name |-> 0,
     embeddings |-> << >>, cached_indices |-> << >>,
     torn_embeddings |-> FALSE, torn_hash |-> FALSE]

\* chunk_embeddings.npz and chunk_hash.json absent
NoChunkCache == [exists |-> FALSE, hash |-> << >>, count |-> 0, embeddings |-> << >>]

\* __init__: no chunks, chunk_embeddings None; read is what the last
\* search_chunks found in chunk_embeddings and chunks
ChunkStoreIdle ==
    [chunks |-> << >>, chunk_embeddings |-> None, files |-> NoChunkCache,
     read |-> [called |-> FALSE, used |-> FALSE, rows |-> << >>, chunks |-> << >>]]

\* the worker threads that serve /api/search, none of them in a request
Threads == {1, 2}

ThreadIdle ==
    [pc |-> "idle", image_matches |-> << >>, image_score_map |-> << >>,
     results |-> << >>]

NoneInFlight == [t \in Threads |-> ThreadIdle]

LoadedIdle ==
    [called |-> FALSE, op |-> "none", force_refresh |-> FALSE, raised |-> FALSE,
     texts |-> << >>, indices |-> << >>, dimension |-> 0, embeddings |-> << >>,
     how |-> "none", cache_before |-> NoCacheFiles]

IndexIdle ==
    /\ notes = Unannotated
    /\ last_search = SearchIdle
    /\ cache_files = NoCacheFiles
    /\ loaded = LoadedIdle
    /\ chunked = ChunkedIdle
    /\ chunk_store = ChunkStoreIdle
    /\ in_flight = NoneInFlight
    /\ fn = FnIdle

RetIdle ==
    [called |-> FALSE, intent |-> "factual", max_results |-> 0,
     vec_raises |-> FALSE, raised |-> FALSE, items |-> << >>, calls |-> << >>]

CiteIdle ==
    [called |-> FALSE, response_text |-> << >>, context_items |-> << >>,
     citations |-> << >>]

ChatIdle ==
    /\ pc = "idle"
    /\ turn = [use_notes_context |-> FALSE, messages |-> << >>, topic |-> << >>]
    /\ context_items = << >>
    /\ prepared = << >>
    /\ events = << >>
    /\ full_response = << >>
    /\ upstream = "none"
    /\ lines_read = 0

-----------------------------------------------------------------------------
(* Specification of the router: any call of retrieve_and_ground *)

\* The router keeps no state between calls: one call from every backend state
\* covers every call of a longer run.
Retrieve ==
    /\ ~ret.called
    /\ \E intent \in QueryIntent, max_results \in 1..MaxResultsBound,
          vec_raises \in BOOLEAN :
          LET out == retrieve_and_ground(max_results, intent, vec_raises)
          IN ret' = [called |-> TRUE, intent |-> intent,
                     max_results |-> max_results, vec_raises |-> vec_raises,
                     raised |-> out.raised, items |-> out.items,
                     calls |-> out.calls]
    /\ UNCHANGED <<index_vars, backend_vars, cite, chat_vars>>

InitRouter ==
    InitBackends /\ ret = RetIdle /\ cite = CiteIdle /\ ChatIdle /\ IndexIdle

NextRouter == Retrieve

SpecRouter == InitRouter /\ [][NextRouter]_vars

-----------------------------------------------------------------------------
(* Properties of the router, checked under SpecRouter *)

GraphReady == graph_service.present /\ graph_service.is_ready
TreeReady == raptor_service.present /\ Len(raptor_service.tree_nodes) > 0
LanceReady == lancedb_service.present /\ lancedb_service.available

\* C3: whatever the intent and the readiness flags, retrieve_and_ground calls
\* query_relations only on a ready graph backend, query_summaries only on a
\* ready tree backend, and LanceDB's search_chunks only when LanceDB is
\* available.
C3_NeverCallsUnreadyBackend ==
    ret.called =>
        \A i \in 1..Len(ret.calls) :
            /\ ret.calls[i].svc = "graph_service" => GraphReady
            /\ ret.calls[i].svc = "raptor_service" => TreeReady
            /\ ret.calls[i].svc = "lancedb_service" => LanceReady

\* a graph backend that is constructed but not ready, a relational query, and
\* the router did call some backend
C3_Witness ==
    /\ ret.called
    /\ ret.intent = "relational"
    /\ graph_service.present /\ ~graph_service.is_ready
    /\ raptor_service.present /\ ~TreeReady
    /\ ~LanceReady
    /\ Len(ret.calls) > 0

SpecializedUnavailable ==
    \/ ret.intent = "relational" /\ ~GraphReady
    \/ ret.intent = "summary" /\ ~TreeReady

C5_UniqueCitationIds ==
    ret.called =>
        \A i, j \in 1..Len(ret.items) :
            i # j => ret.items[i].citation_id # ret.items[j].citation_id

\* every item the vector backend can return for the query
AllVectorItems == _retrieve_lancedb(Cardinality(NoteIds), FALSE).items

\* C9: with the specialized backend ready and returning k < max_results items,
\* the result is those k items followed by vector items not already present
\* (by note_id for graph, by citation_id for tree), topped up until max_results
\* is reached or the vector backend has no further unseen item; it never
\* exceeds max_results and added items never repeat an id of the result.
C9_Supplementation ==
    LET graph == ret.intent = "relational" /\ GraphReady
        tree == ret.intent = "summary" /\ TreeReady
        special == IF graph
                   THEN _results_to_grounded(query_relations(ret.max_results),
                                             "graphrag")
                   ELSE _results_to_grounded(query_summaries(ret.max_results),
                                             "raptor")
        k == Len(special)
        Key(item) == IF graph THEN item.note_id ELSE item.citation_id
        n == Len(ret.items)
    IN (ret.called /\ ~ret.raised /\ (graph \/ tree) /\ k < ret.max_results) =>
        /\ n >= k /\ n <= ret.max_results
        /\ SubSeq(ret.items, 1, k) = special
        /\ \A i \in k + 1..n :
              /\ ret.items[i] \in Range(AllVectorItems)
              /\ \A j \in 1..n : j # i => Key(ret.items[j]) # Key(ret.items[i])
        /\ \/ n = ret.max_results
           \/ \A v \in Range(AllVectorItems) :
                  \/ v \in Range(ret.items)
                  \/ \E j \in 1..n : Key(ret.items[j]) = Key(v)

\* the concatenation _retrieve_mixed deduplicates: vector, graph, tree
MixedUnion(per_source) ==
    _retrieve_lancedb(per_source, FALSE).items
    \o (IF GraphReady
        THEN _results_to_grounded(query_relations(per_source), "graphrag")
        ELSE << >>)
    \o (IF TreeReady
        THEN _results_to_grounded(query_summaries(per_source), "raptor")
        ELSE << >>)

\* positions of u that are the first with their citation_id
FirstOccurrences(u) ==
    {i \in 1..Len(u) : \A j \in 1..i - 1 : u[j].citation_id # u[i].citation_id}

\* C10: in MIXED mode every ready backend is queried with the same budget, and
\* the result is the union of their items deduplicated by citation_id (first
\* occurrence in the order vector, graph, tree), sorted by relevance_score
\* non-increasing and truncated to max_results.
C10_MixedMerge ==
    (ret.called /\ ret.intent = "mixed" /\ ~ret.raised) =>
        LET budget == ret.calls[1].max_results
            u == MixedUnion(budget)
            first == {u[i] : i \in FirstOccurrences(u)}
            n == Len(ret.items)
        IN /\ \A i \in 1..Len(ret.calls) : ret.calls[i].max_results = budget
           /\ GraphReady =>
                 \E i \in 1..Len(ret.calls) : ret.calls[i].svc = "graph_service"
           /\ TreeReady =>
                 \E i \in 1..Len(ret.calls) : ret.calls[i].svc = "raptor_service"
           /\ \A i \in 1..n : ret.items[i] \in first
           /\ \A i, j \in 1..n :
                 i # j => ret.items[i].citation_id # ret.items[j].citation_id
           /\ \A i \in 1..n - 1 :
                 ret.items[i].relevance_score >= ret.items[i + 1].relevance_score
           /\ n = (IF Cardinality(first) < ret.max_results
                   THEN Cardinality(first) ELSE ret.max_results)
           /\ \A f \in first :
                 f \notin Range(ret.items) =>
                    \A i \in 1..n : ret.items[i].relevance_score >= f.relevance_score

\* all three backends answer, a duplicate citation_id is dropped and the sorted
\* union is truncated
C10_Witness ==
    /\ ret.called /\ ret.intent = "mixed" /\ ~ret.raised
    /\ GraphReady /\ TreeReady
    /\ Len(ret.calls) = 3
    /\ LET u == MixedUnion(ret.calls[1].max_results)
       IN /\ Cardinality(FirstOccurrences(u)) < Len(u)
          /\ Cardinality(FirstOccurrences(u)) > ret.max_results
    /\ Len(ret.items) = ret.max_results
    /\ ret.items[1].source_type # "lancedb"

-----------------------------------------------------------------------------
(* Citation extraction (app/services/citation_service.py)                  *)
(*                                                                         *)
(* A response text is the sequence of the markers the two regular          *)
(* expressions find in it, in text order:                                  *)
(*   [kind |-> "citation", id |-> raw]   a "[citation:raw]" marker, raw    *)
(*                                       being the non-empty text matched  *)
(*                                       by [^\]]+                         *)
(*   [kind |-> "note", nums |-> <<..>>]  a "[Note #N, #M, ...]" marker     *)
(* A context item is a GroundedContext object or a plain dict.             *)

Citation(raw) == [kind |-> "citation", id |-> raw]
NoteMarker(nums) == [kind |-> "note", nums |-> nums]

AsObject(g) == [kind |-> "GroundedContext", v |-> g]
AsDict(d) == [kind |-> "dict", v |-> d]

\* hasattr(item, "citation_id") / hasattr(item, "note_id")
IsObject(item) == item.kind = "GroundedContext"

\* length of a text snippet
SnippetLen == 200

\* extract_citations: the legacy [Note #N] grammar, 1-indexed
RECURSIVE LegacyNums(_, _, _, _)
LegacyNums(nums, context_notes, seen, citations) ==
    IF nums = << >> THEN [seen |-> seen, citations |-> citations]
    ELSE LET num == Head(nums)
         IN IF 1 <= num /\ num <= Len(context_notes) /\ num \notin seen
            THEN LegacyNums(Tail(nums), context_notes, seen \cup {num},
                            Append(citations,
                                   [note_number |-> num,
                                    note_id |-> Get(context_notes[num], "id", EmptyStr),
                                    note_title |-> Get(context_notes[num], "title",
                                                       EmptyStr)]))
            ELSE LegacyNums(Tail(nums), context_notes, seen, citations)

RECURSIVE LegacyScan(_, _, _, _)
LegacyScan(response_text, context_notes, seen, citations) ==
    IF response_text = << >> THEN citations
    ELSE IF Head(response_text).kind = "note"
    THEN LET r == LegacyNums(Head(response_text).nums, context_notes, seen,
                             citations)
         IN LegacyScan(Tail(response_text), context_notes, r.seen, r.citations)
    ELSE LegacyScan(Tail(response_text), context_notes, seen, citations)

\* mutant: the range test is num < len(context_notes)
extract_citations_below_len(response_text, context_notes) ==
    LegacyScan(response_text,
               SubSeq(context_notes, 1, Len(context_notes) - 1), {}, << >>)

extract_citations(response_text, context_notes) ==
    LegacyScan(response_text, context_notes, {}, << >>)

\* the lookup from citation_id to context item: a later item replaces an
\* earlier one with the same id; a dict without (or with an empty)
\* citation_id is left out
RECURSIVE ContextMap(_, _)
ContextMap(items, context_map) ==
    IF items = << >> THEN context_map
    ELSE LET item == Head(items)
         IN IF IsObject(item)
            THEN ContextMap(Tail(items),
                            (item.v.citation_id :> item) @@ context_map)
            ELSE IF Get(item.v, "citation_id", EmptyStr) # EmptyStr
            THEN ContextMap(Tail(items),
                            (item.v.citation_id :> item) @@ context_map)
            ELSE ContextMap(Tail(items), context_map)

\* seq[:k] + "..." when longer than k, for objects
Ellipsis(text, k) ==
    IF Len(text) > k THEN SubSeq(text, 1, k) \o <<".", ".", ".">> ELSE text

\* the citation dict built for one marker id
ResolvedCitation(citation_id, context_map) ==
    IF citation_id \in DOMAIN context_map
    THEN LET item == context_map[citation_id]
         IN IF IsObject(item)
            THEN [citation_id |-> citation_id,
                  note_id |-> item.v.note_id,
                  note_title |-> item.v.note_title,
                  start_char_idx |-> item.v.start_char_idx,
                  end_char_idx |-> item.v.end_char_idx,
                  text_snippet |-> Ellipsis(item.v.text, SnippetLen)]
            ELSE [citation_id |-> citation_id,
                  note_id |-> Get(item.v, "note_id", EmptyStr),
                  note_title |-> Get(item.v, "note_title", EmptyStr),
                  start_char_idx |-> GetOpt(item.v, "start_char_idx"),
                  end_char_idx |-> GetOpt(item.v, "end_char_idx"),
                  text_snippet |-> Prefix(Get(item.v, "text", EmptyStr), SnippetLen)]
    ELSE [citation_id |-> citation_id,
          note_id |-> EmptyStr,
          note_title |-> EmptyStr,
          start_char_idx |-> None,
          end_char_idx |-> None,
          text_snippet |-> EmptyStr]

\* mutant: the marker id is only stripped on the left
StripLeftOnly(s) == LStrip(s)

\* match.group(1).strip()
MarkerId(raw) == Strip(raw)

\* the loop over the [citation:ID] markers
RECURSIVE GroundedScan(_, _, _, _)
GroundedScan(response_text, context_map, seen, citations) ==
    IF response_text = << >> THEN citations
    ELSE IF Head(response_text).kind = "citation"
    THEN LET citation_id == MarkerId(Head(response_text).id)
         IN IF citation_id \in seen
            THEN GroundedScan(Tail(response_text), context_map, seen, citations)
            ELSE GroundedScan(Tail(response_text), context_map,
                              seen \cup {citation_id},
                              Append(citations,
                                     ResolvedCitation(citation_id, context_map)))
    ELSE GroundedScan(Tail(response_text), context_map, seen, citations)

\* the {"id", "title"} dict the fallback hands to extract_citations
LegacyNote(item) ==
    IF IsObject(item)
    THEN [id |-> item.v.note_id, title |-> item.v.note_title]
    ELSE [id |-> Get(item.v, "note_id", Get(item.v, "id", EmptyStr)),
          title |-> Get(item.v, "note_title", Get(item.v, "title", EmptyStr))]

\* mutant: the legacy grammar is parsed whenever there is a context
LegacyFallbackAlways(citations, items) == items # << >>

\* if not citations and context_items
LegacyFallbackNeeded(citations, items) == citations = << >> /\ items # << >>

extract_grounded_citations(response_text, items) ==
    LET context_map == ContextMap(items, << >>)
        citations == GroundedScan(response_text, context_map, {}, << >>)
    IN IF LegacyFallbackNeeded(citations, items)
       THEN LET legacy_notes == [i \in 1..Len(items) |-> LegacyNote(items[i])]
                legacy == extract_citations(response_text, legacy_notes)
            IN citations \o
               [i \in 1..Len(legacy) |->
                  [citation_id |-> Get(legacy[i], "note_id", EmptyStr),
                   note_id |-> Get(legacy[i], "note_id", EmptyStr),
                   note_title |-> Get(legacy[i], "note_title", EmptyStr),
                   start_char_idx |-> None,
                   end_char_idx |-> None,
                   text_snippet |-> EmptyStr]]
       ELSE citations

-----------------------------------------------------------------------------
(* Specification of the extractor: extract_grounded_citations applied to   *)
(* any response over the marker pool and any context over the item pool    *)

CidA0 == <<"a", "_", "c", "0">>

\* context items of the shapes the router and the tests produce
ItemPool ==
    {AsObject(GroundedOf([id |-> <<"a">>, title |-> <<"T", "a">>,
                          matched_chunk |-> <<"x", "a">>, chunk_index |-> 0,
                          start_char_idx |-> 0, end_char_idx |-> 2,
                          heading_trail |-> << >>, score |-> 2], "lancedb")),
     AsObject(GroundedOf([id |-> <<"b">>, title |-> <<"T", "b">>,
                          content |-> <<"x", "b">>, score |-> 1], "lancedb")),
     AsObject(GroundedOf([text |-> <<"s">>, score |-> 1, level |-> 1,
                          note_ids |-> <<"a">>, source_type |-> "raptor"],
                         "raptor")),
     AsDict([citation_id |-> CidA0, note_id |-> <<"a">>,
             note_title |-> <<"D", "a">>, text |-> <<"y", "a">>,
             start_char_idx |-> 1, end_char_idx |-> 2]),
     AsDict([id |-> <<"b">>, title |-> <<"T", "b">>])}

\* markers an LLM response can hold: a known id, the same id padded with
\* blanks, an unknown id, a blank id, and legacy markers
MarkerPool ==
    {Citation(CidA0),
     Citation(<<" ">> \o CidA0 \o <<" ">>),
     Citation(<<"z">>),
     Citation(<<" ">>),
     NoteMarker(<<1>>),
     NoteMarker(<<2, 0, 1>>)}

InitCite ==
    /\ InitBackends
    /\ vector_hits = << >>
    /\ ~lancedb_service.present
    /\ ~graph_service.present
    /\ ~raptor_service.present
    /\ ret = RetIdle
    /\ ChatIdle
    /\ IndexIdle
    /\ \E r \in SeqsUpTo(MarkerPool, MaxTokens), c \in SeqsUpTo(ItemPool, MaxContext) :
          cite = [called |-> FALSE, response_text |-> r, context_items |-> c,
                  citations |-> << >>]

Extract ==
    /\ ~cite.called
    /\ cite' = [cite EXCEPT
                  !.called = TRUE,
                  !.citations = extract_grounded_citations(cite.response_text,
                                                           cite.context_items)]
    /\ UNCHANGED <<index_vars, backend_vars, ret, chat_vars>>

NextCite == Extract

SpecCite == InitCite /\ [][NextCite]_vars

-----------------------------------------------------------------------------
(* Properties of the extractor, checked under SpecCite *)

CitationPositions(resp) == {i \in 1..Len(resp) : resp[i].kind = "citation"}

\* positions of the first marker of every distinct trimmed id
FirstMarkerPositions(resp) ==
    {i \in CitationPositions(resp) :
        \A j \in CitationPositions(resp) :
            j < i => Strip(resp[j].id) # Strip(resp[i].id)}

\* the k-th smallest element of a set of positions
KthOf(S, k) == CHOOSE i \in S : Cardinality({j \in S : j <= i}) = k

RECURSIVE OnlyCitations(_)
OnlyCitations(resp) ==
    IF resp = << >> THEN << >>
    ELSE IF Head(resp).kind = "citation"
    THEN <<Head(resp)>> \o OnlyCitations(Tail(resp))
    ELSE OnlyCitations(Tail(resp))

\* the citation id a context item offers for resolution, "" when it has none
ItemCitationId(item) ==
    IF IsObject(item) THEN item.v.citation_id
    ELSE Get(item.v, "citation_id", EmptyStr)

ItemNoteId(item) ==
    IF IsObject(item) THEN item.v.note_id ELSE Get(item.v, "note_id", EmptyStr)

ItemTitle(item) ==
    IF IsObject(item) THEN item.v.note_title
    ELSE Get(item.v, "note_title", EmptyStr)

ItemStart(item) ==
    IF IsObject(item) THEN item.v.start_char_idx
    ELSE GetOpt(item.v, "start_char_idx")

ItemEnd(item) ==
    IF IsObject(item) THEN item.v.end_char_idx ELSE GetOpt(item.v, "end_char_idx")

\* the context items that carry the id (a mapping with no or an empty
\* citation_id carries none)
ItemsWithId(items, id) ==
    {i \in 1..Len(items) :
        /\ ItemCitationId(items[i]) = id
        /\ IsObject(items[i]) \/ id # EmptyStr}

\* C7: if the response holds at least one [citation:...] marker, the output
\* holds only citations derived from those markers: it is the output for the
\* same response with every [Note #N] marker removed, one citation per distinct
\* trimmed marker id.
C7_LegacyFallbackExclusive ==
    (cite.called /\ CitationPositions(cite.response_text) # {}) =>
        /\ cite.citations =
              extract_grounded_citations(OnlyCitations(cite.response_text),
                                         cite.context_items)
        /\ Len(cite.citations) =
              Cardinality(FirstMarkerPositions(cite.response_text))
        /\ \A k \in 1..Len(cite.citations) :
              \E i \in CitationPositions(cite.response_text) :
                  cite.citations[k].citation_id = Strip(cite.response_text[i].id)

\* a response with a structured marker and a legacy marker that the context
\* could resolve
C7_Witness ==
    /\ cite.called
    /\ CitationPositions(cite.response_text) # {}
    /\ \E i \in 1..Len(cite.response_text) :
          /\ cite.response_text[i].kind = "note"
          /\ \E n \in Range(cite.response_text[i].nums) :
                1 <= n /\ n <= Len(cite.context_items)
    /\ Len(cite.citations) = 1

\* C8: the structured output is one citation per distinct trimmed marker id,
\* in order of first occurrence; an id the context carries is reported with
\* the note_id, title and offsets of a context item with that id, an id the
\* context lacks is reported with empty note_id and title and null offsets.
C8_StructuredExtraction ==
    (cite.called /\ CitationPositions(cite.response_text) # {}) =>
        LET resp == cite.response_text
            first == FirstMarkerPositions(resp)
        IN /\ Len(cite.citations) = Cardinality(first)
           /\ \A k \in 1..Len(cite.citations) :
                 LET c == cite.citations[k]
                     id == Strip(resp[KthOf(first, k)].id)
                     holders == ItemsWithId(cite.context_items, id)
                 IN /\ c.citation_id = id
                    /\ holders # {} =>
                          \E i \in holders :
                              /\ c.note_id = ItemNoteId(cite.context_items[i])
                              /\ c.note_title = ItemTitle(cite.context_items[i])
                              /\ c.start_char_idx = ItemStart(cite.context_items[i])
                              /\ c.end_char_idx = ItemEnd(cite.context_items[i])
                    /\ holders = {} =>
                          /\ c.note_id = EmptyStr
                          /\ c.note_title = EmptyStr
                          /\ c.start_char_idx = None
                          /\ c.end_char_idx = None

\* a padded and an unpadded marker of one id the context carries, and a marker
\* whose id the context lacks: two citations, the second one unresolved
C8_Witness ==
    /\ cite.called
    /\ Len(cite.response_text) = 3
    /\ Cardinality(FirstMarkerPositions(cite.response_text)) = 2
    /\ Len(cite.citations) = 2
    /\ cite.citations[1].note_id = <<"a">>
    /\ cite.citations[2].citation_id = <<"z">>
    /\ cite.citations[2].note_id = EmptyStr
    /\ cite.response_text[1].id # cite.response_text[2].id
    /\ Strip(cite.response_text[1].id) = Strip(cite.response_text[2].id)

-----------------------------------------------------------------------------
(* Intent classification (router_agent.py): a query is a sequence of       *)
(* words, a keyword a sequence of lower-case words, and "kw in lower" the  *)
(* occurrence of the keyword's words side by side in the lowered query.    *)

_SUMMARY_KEYWORDS ==
    {<<"summarize">>, <<"summary">>, <<"overview">>, <<"recap">>, <<"outline">>,
     <<"highlights">>, <<"main", "points">>, <<"key", "takeaways">>, <<"tldr">>,
     <<"gist">>, <<"what", "are", "the", "main">>,
     <<"give", "me", "an", "overview">>, <<"big", "picture">>}

_RELATIONAL_KEYWORDS ==
    {<<"relationship">>, <<"connection">>, <<"related">>, <<"linked">>,
     <<"between">>, <<"how", "does">>, <<"compare">>, <<"contrast">>,
     <<"interact">>, <<"depend">>, <<"who", "is">>, <<"who", "was">>,
     <<"what", "connects">>}

\* str.lower() on the words of the model
LowerWord(w) ==
    CASE w = "Summarize" -> "summarize"
      [] w = "Who" -> "who"
      [] w = "Between" -> "between"
      [] w = "OVERVIEW" -> "overview"
      [] w = "SUMMARY" -> "summary"
      [] w = "Compare" -> "compare"
      [] OTHER -> w

Lower(query) == [i \in 1..Len(query) |-> LowerWord(query[i])]

\* kw in lower
Occurs(kw, lower) ==
    \E i \in 1..Len(lower) - Len(kw) + 1 : SubSeq(lower, i, i + Len(kw) - 1) = kw

\* mutant: the keywords are looked up in the query as typed
_classify_case_sensitive(query) ==
    LET summary_score == Cardinality({kw \in _SUMMARY_KEYWORDS : Occurs(kw, query)})
        relational_score ==
            Cardinality({kw \in _RELATIONAL_KEYWORDS : Occurs(kw, query)})
    IN IF summary_score > relational_score /\ summary_score > 0 THEN "summary"
       ELSE IF relational_score > summary_score /\ relational_score > 0
       THEN "relational"
       ELSE "factual"

_classify_rule_based(query) ==
    LET lower == Lower(query)
        summary_score == Cardinality({kw \in _SUMMARY_KEYWORDS : Occurs(kw, lower)})
        relational_score ==
            Cardinality({kw \in _RELATIONAL_KEYWORDS : Occurs(kw, lower)})
    IN IF summary_score > relational_score /\ summary_score > 0 THEN "summary"
       ELSE IF relational_score > summary_score /\ relational_score > 0
       THEN "relational"
       ELSE "factual"

classify_intent(query) == _classify_rule_based(query)

-----------------------------------------------------------------------------
(* ChatService.stream_chat_with_protocol (app/services/chat_service.py)    *)

\* settings.chat_context_notes
max_context_notes == 15
\* settings.chat_max_recent_messages
max_recent_messages == 6
\* settings.chat_summarization_threshold (stored by __init__, line 33)
chat_summarization_threshold == 12

Message(role, content) == [role |-> role, content |-> content]

RECURSIVE NonSystem(_)
NonSystem(messages) ==
    IF messages = << >> THEN << >>
    ELSE IF Head(messages).role # "system"
    THEN <<Head(messages)>> \o NonSystem(Tail(messages))
    ELSE NonSystem(Tail(messages))

\* the content of the last user message, "" when there is none
RECURSIVE LatestUserMessage(_)
LatestUserMessage(messages) ==
    IF messages = << >> THEN EmptyStr
    ELSE IF messages[Len(messages)].role = "user"
    THEN messages[Len(messages)].content
    ELSE LatestUserMessage(SubSeq(messages, 1, Len(messages) - 1))

\* _get_grounded_context: [items, intent, raised]
_get_grounded_context(messages, topic, vec_raises) ==
    LET latest_message == LatestUserMessage(messages)
    IN IF latest_message = EmptyStr /\ topic = EmptyStr
       THEN [items |-> << >>, intent |-> "factual", raised |-> FALSE]
       ELSE LET query == IF latest_message # EmptyStr THEN latest_message ELSE topic
                intent == classify_intent(query)
                out == retrieve_and_ground(max_context_notes, intent, vec_raises)
            IN [items |-> out.items, intent |-> intent, raised |-> out.raised]

\* _maybe_summarize_window; summary is None when the summarizer call failed
_maybe_summarize_window(messages, summary) ==
    LET non_system == NonSystem(messages)
        n == Len(non_system)
    IN IF n <= max_recent_messages + 2 THEN non_system
       ELSE LET recent == SubSeq(non_system, n - max_recent_messages + 1, n)
            IN IF summary # None
               THEN <<Message("system", <<"S">> \o summary[1])>> \o recent
               ELSE recent

\* prepare_messages_with_grounded_context
prepare_messages_with_grounded_context(messages, items) ==
    <<Message("system", IF items # << >> THEN <<"G">> ELSE <<"N">>)>>
    \o NonSystem(messages)

ContextEvent(items, intent) ==
    [type |-> "context", items |-> items, intent |-> intent]
DeltaEvent(chunk) == [type |-> "delta", content |-> chunk]
DoneEvent(citations, text) ==
    [type |-> "done", citations |-> citations, full_response |-> text]
ErrorEvent == [type |-> "error"]

\* the requests of the model: the history before the latest message, the
\* latest user message and the topic hint
History(n) ==
    [i \in 1..n |-> Message(IF i % 2 = 1 THEN "user" ELSE "assistant", <<"m">>)]

ChatQueries ==
    {<<"budget">>, <<"Summarize", "budget">>, <<"Who", "is", "alice">>}

ChatRequests ==
    {[use_notes_context |-> u,
      messages |-> History(h) \o <<Message("user", q)>>,
      topic |-> EmptyStr] :
        u \in BOOLEAN, q \in ChatQueries,
        h \in {0, max_recent_messages + 2, chat_summarization_threshold}}
    \cup {[use_notes_context |-> TRUE,
           messages |-> <<Message("system", <<"p">>)>>,
           topic |-> t] : t \in {EmptyStr, <<"OVERVIEW">>}}

\* lines 295-323: retrieval and the context event.  An exception of the
\* retrieval leaves the generator before anything is yielded.
StartTurn ==
    /\ pc = "idle"
    /\ \E req \in ChatRequests, vec_raises \in BOOLEAN :
          LET got == IF req.use_notes_context
                     THEN _get_grounded_context(req.messages, req.topic, vec_raises)
                     ELSE [items |-> << >>, intent |-> "factual", raised |-> FALSE]
          IN /\ turn' = req
             /\ IF got.raised
                THEN /\ pc' = "raised"
                     /\ UNCHANGED <<context_items, events>>
                ELSE /\ pc' = "window"
                     /\ context_items' = got.items
                     /\ events' = <<ContextEvent(got.items, got.intent)>>
    /\ UNCHANGED <<index_vars, backend_vars, ret, cite, prepared, full_response, upstream,
                   lines_read>>

\* lines 325-328: the summarizer call either returns a summary or fails (its
\* exception is swallowed and it returns None)
Window ==
    /\ pc = "window"
    /\ \E summary \in {None, Some(<<"1">>)} :
          prepared' = prepare_messages_with_grounded_context(
                          _maybe_summarize_window(turn.messages, summary),
                          IF turn.use_notes_context THEN context_items ELSE << >>)
    /\ pc' = "connect"
    /\ UNCHANGED <<index_vars, backend_vars, ret, cite, turn, context_items, events,
                   full_response, upstream, lines_read>>

\* lines 331-341: the request is sent; a connection error, a timeout or an
\* error status raises inside the try block
Connect ==
    /\ pc = "connect"
    /\ \E ok \in BOOLEAN :
          IF ok
          THEN /\ pc' = "streaming"
               /\ upstream' = "open"
               /\ UNCHANGED events
          ELSE /\ pc' = "finished"
               /\ upstream' = "connect_failed"
               /\ events' = Append(events, ErrorEvent)
    /\ full_response' = << >>
    /\ UNCHANGED <<index_vars, backend_vars, ret, cite, turn, context_items, prepared,
                   lines_read>>

\* upstream lines that change nothing: an empty line, a line without the
\* "data: " prefix, invalid JSON, no choices, no or empty delta content
SkippedLines == {"blank", "no_data_prefix", "invalid_json", "no_choices",
                 "empty_content"}

SkipLine ==
    /\ pc = "streaming"
    /\ lines_read < MaxLines
    /\ \E line \in SkippedLines : lines_read' = lines_read + 1
    /\ UNCHANGED <<index_vars, backend_vars, ret, cite, pc, turn, context_items, prepared,
                   events, full_response, upstream>>

\* delta contents of the model
ChatChunks ==
    {<<Citation(CidA0)>>, <<Citation(<<"z">>)>>, <<NoteMarker(<<1>>)>>}

\* lines 352-362: a data line with delta content
DeltaLine ==
    /\ pc = "streaming"
    /\ lines_read < MaxLines
    /\ \E chunk \in ChatChunks :
          /\ full_response' = full_response \o chunk
          /\ events' = Append(events, DeltaEvent(chunk))
    /\ lines_read' = lines_read + 1
    /\ UNCHANGED <<index_vars, backend_vars, ret, cite, pc, turn, context_items, prepared,
                   upstream>>

\* mutant: the citations are extracted against an empty context
FinishWithoutContext(signal) ==
    /\ events' = Append(events,
                        DoneEvent(extract_grounded_citations(full_response, << >>),
                                  full_response))
    /\ pc' = "finished"
    /\ upstream' = signal

\* lines 366-370: citations are extracted and the done event is yielded
Finish(signal) ==
    /\ events' = Append(events,
                        DoneEvent(extract_grounded_citations(
                                      full_response,
                                      [i \in 1..Len(context_items) |->
                                         AsObject(context_items[i])]),
                                  full_response))
    /\ pc' = "finished"
    /\ upstream' = signal

\* line 350: "data: [DONE]" leaves the loop
DoneLine ==
    /\ pc = "streaming"
    /\ lines_read < MaxLines
    /\ Finish("done_signal")
    /\ lines_read' = lines_read + 1
    /\ UNCHANGED <<index_vars, backend_vars, ret, cite, turn, context_items, prepared,
                   full_response>>

\* line 342: the upstream closes the stream without "data: [DONE]"; the
\* async for loop ends normally
StreamEnds ==
    /\ pc = "streaming"
    /\ Finish("eof")
    /\ UNCHANGED <<index_vars, backend_vars, ret, cite, turn, context_items, prepared,
                   full_response, lines_read>>

\* lines 372-373: a read error or read timeout while streaming
StreamFails ==
    /\ pc = "streaming"
    /\ events' = Append(events, ErrorEvent)
    /\ pc' = "finished"
    /\ upstream' = "failed"
    /\ UNCHANGED <<index_vars, backend_vars, ret, cite, turn, context_items, prepared,
                   full_response, lines_read>>

\* the client goes away: the generator is closed at its current await or
\* yield (GeneratorExit and CancelledError are not caught by except Exception)
Disconnect ==
    /\ pc \in {"window", "connect", "streaming"}
    /\ pc' = "cancelled"
    /\ UNCHANGED <<index_vars, backend_vars, ret, cite, turn, context_items, prepared, events,
                   full_response, upstream, lines_read>>

\* the next request starts a new generator
NewRequest ==
    /\ pc \in {"finished", "raised", "cancelled"}
    /\ pc' = "idle"
    /\ turn' = [use_notes_context |-> FALSE, messages |-> << >>, topic |-> << >>]
    /\ context_items' = << >>
    /\ prepared' = << >>
    /\ events' = << >>
    /\ full_response' = << >>
    /\ upstream' = "none"
    /\ lines_read' = 0
    /\ UNCHANGED <<index_vars, backend_vars, ret, cite>>

\* backend states of the chat specification
ChatBackends ==
    /\ vector_hits \in {<< >>, <<[id |-> <<"a">>, score |-> 2],
                                [id |-> <<"b">>, score |-> 1]>>}
    /\ lancedb_service \in {[present |-> TRUE, available |-> TRUE],
                            [present |-> FALSE, available |-> FALSE]}
    /\ chunking_service = [present |-> FALSE]
    /\ graph_service \in
          {[present |-> FALSE, is_ready |-> FALSE, nodes |-> << >>],
           [present |-> TRUE, is_ready |-> TRUE,
            nodes |-> <<[note_id |-> <<"a">>, score |-> 2]>>]}
    /\ raptor_service \in
          {[present |-> FALSE, tree_nodes |-> << >>],
           [present |-> TRUE,
            tree_nodes |-> <<[text |-> <<"s">>, score |-> 1, level |-> 1,
                              note_ids |-> <<"a">>]>>]}

InitChat ==
    ChatBackends /\ ret = RetIdle /\ cite = CiteIdle /\ ChatIdle /\ IndexIdle

NextChat ==
    \/ StartTurn
    \/ Window
    \/ Connect
    \/ SkipLine
    \/ DeltaLine
    \/ DoneLine
    \/ StreamEnds
    \/ StreamFails
    \/ Disconnect
    \/ NewRequest

SpecChat == InitChat /\ [][NextChat]_vars

-----------------------------------------------------------------------------
(* Claims about the chat stream                                            *)

EventTypes(evs) == [i \in 1..Len(evs) |-> evs[i].type]

\* one context event, then delta events, then one terminal event
WellFormedStream(types) ==
    /\ Len(types) >= 2
    /\ types[1] = "context"
    /\ types[Len(types)] \in {"done", "error"}
    /\ \A i \in 2..Len(types) - 1 : types[i] = "delta"

\* C1: every complete run of stream_chat_with_protocol, a run in which the
\* retrieval, the summarization or the LLM call failed included, has emitted
\* exactly one context event first, then zero or more delta events, then
\* exactly one terminal event (done or error) and nothing after it.
C1_StreamEventOrder ==
    pc \in {"finished", "raised"} => WellFormedStream(EventTypes(events))

\* C2: done is emitted only when the upstream delivered "data: [DONE]"; when
\* the upstream call fails, times out or ends without that signal the
\* terminal event is error.
C2_DoneOnlyOnEndSignal ==
    /\ \A i \in 1..Len(events) :
          events[i].type = "done" => upstream = "done_signal"
    /\ (pc = "finished" /\ upstream \in {"connect_failed", "failed", "eof"})
          => events[Len(events)].type = "error"

ContextCitationIds == {context_items[i].citation_id : i \in 1..Len(context_items)}

\* C6: every citation of the turn's extraction output that has a non-empty
\* note_id, whether it stems from a [citation:ID] marker or from the legacy
\* [Note #N] fallback, carries the citation_id of a context item of the
\* same turn.
C6_CitationIdsFromTurnContext ==
    \A i \in 1..Len(events) :
        events[i].type = "done" =>
            \A k \in 1..Len(events[i].citations) :
                events[i].citations[k].note_id # EmptyStr =>
                    events[i].citations[k].citation_id \in ContextCitationIds

-----------------------------------------------------------------------------
(* The hybrid scorer as a state machine: searches on one VibeSearch        *)

\* cosine similarities of the query and the notes of note_indices
SemScores == {-30, 0, 10}

\* _keyword_search: a dict of the notes with a keyword match; half of the
\* query's keywords match
KeywordMaps ==
    {<< >>, (1 :> 50), (2 :> 50), (1 :> 50) @@ (2 :> 50)}

\* ImageProcessor.search_images: matches above IMAGE_SEARCH_THRESHOLD,
\* best first
ImageMatchLists ==
    {<< >>,
     <<[image_path |-> "p", score |-> 30]>>,
     <<[image_path |-> "q", score |-> 30]>>,
     <<[image_path |-> "p", score |-> 40], [image_path |-> "q", score |-> 30]>>,
     <<[image_path |-> "q", score |-> 40], [image_path |-> "p", score |-> 30]>>}

\* lines 292-293: a blank query returns [] before anything else
SearchBlank ==
    /\ last_search' = [SearchIdle EXCEPT !.called = TRUE, !.blank = TRUE]
    /\ UNCHANGED <<notes, cache_vars, chunked, chunk_store, in_flight, fn, backend_vars, ret, cite,
                   chat_vars>>

Search ==
    /\ \E max_results \in 1..MaxResultsBound,
          semantic_scores \in [1..Len(note_indices) -> SemScores],
          keyword_score_map \in KeywordMaps,
          image_matches \in ImageMatchLists :
          LET out == search(max_results, semantic_scores, keyword_score_map,
                            image_matches, notes)
          IN /\ notes' = out.notes
             /\ last_search' =
                   [called |-> TRUE, blank |-> FALSE, max_results |-> max_results,
                    semantic_scores |-> semantic_scores,
                    keyword_score_map |-> keyword_score_map,
                    image_score_map |-> out.image_score_map,
                    results |-> out.results]
    /\ UNCHANGED <<cache_vars, chunked, chunk_store, in_flight, fn, backend_vars, ret, cite, chat_vars>>

\* the services the hybrid scorer does not use are left out of its runs
BackendsAbsent ==
    /\ vector_hits = << >>
    /\ lancedb_service = [present |-> FALSE, available |-> FALSE]
    /\ chunking_service = [present |-> FALSE]
    /\ graph_service = [present |-> FALSE, is_ready |-> FALSE, nodes |-> << >>]
    /\ raptor_service = [present |-> FALSE, tree_nodes |-> << >>]

InitSearch ==
    BackendsAbsent /\ ret = RetIdle /\ cite = CiteIdle /\ ChatIdle /\ IndexIdle

NextSearch == Search \/ SearchBlank

SpecSearch == InitSearch /\ [][NextSearch]_vars

-----------------------------------------------------------------------------
(* Properties of the hybrid scorer, checked under SpecSearch *)

ResultNotes == {last_search.results[k].note_idx : k \in 1..Len(last_search.results)}

SemOf(i) == last_search.semantic_scores[i]
KwOf(i) == Get(last_search.keyword_score_map, note_indices[i], 0)
ImgOf(i) == Get(last_search.image_score_map, note_indices[i], 0)
CombinedOf(i) == combined_score(SemOf(i), KwOf(i), ImgOf(i))

\* no signal of the note clears its bar
BelowEveryBar(i) ==
    /\ SemOf(i) <= SEARCH_THRESHOLD
    /\ KwOf(i) = 0
    /\ ImgOf(i) <= IMAGE_SEARCH_THRESHOLD

\* C11: a note whose semantic score is at most the semantic threshold, whose
\* keyword score is 0 and whose image score is at most the image threshold
\* is not in the list search returns, whatever its combined score or rank.
C11_ExcludedNeverReturned ==
    (last_search.called /\ ~last_search.blank) =>
        \A i \in 1..Len(note_indices) :
            BelowEveryBar(i) => note_indices[i] \notin ResultNotes

\* a note below every bar outranks a returned note
C11_Witness ==
    /\ last_search.called /\ ~last_search.blank
    /\ \E i \in 1..Len(note_indices), k \in 1..Len(last_search.results) :
          /\ BelowEveryBar(i)
          /\ CombinedOf(i) > last_search.results[k].score
          /\ note_indices[i] \notin ResultNotes

Passing == {i \in 1..Len(note_indices) : ~BelowEveryBar(i)}

\* C12: search returns, in non-increasing combined-score order, the
\* max_results highest-scoring notes among those that pass the inclusion
\* rule: min(max_results, number of passing notes) results.
C12_TopPassingNotes ==
    (last_search.called /\ ~last_search.blank) =>
        LET res == last_search.results
        IN /\ Len(res) = IF Cardinality(Passing) < last_search.max_results
                         THEN Cardinality(Passing) ELSE last_search.max_results
           /\ \A k \in 1..Len(res) - 1 : res[k].score >= res[k + 1].score
           /\ \A k \in 1..Len(res) :
                 \E i \in Passing : /\ note_indices[i] = res[k].note_idx
                                    /\ CombinedOf(i) = res[k].score
           /\ \A i \in Passing :
                 note_indices[i] \notin ResultNotes =>
                     \A k \in 1..Len(res) : res[k].score >= CombinedOf(i)

\* the note had an image match for the most recent query
HadImageMatch(n) ==
    ~last_search.blank /\ n \in DOMAIN last_search.image_score_map

\* C13: after any sequence of searches the image-match annotations reflect
\* only the most recent invocation: a note carries has_matching_images and
\* matched_image if and only if it had an image match for that query.
C13_AnnotationsOfLastSearchOnly ==
    last_search.called =>
        \A n \in AllNotes :
            /\ notes[n].has_matching_images <=> HadImageMatch(n)
            /\ notes[n].matched_image # None <=> HadImageMatch(n)

-----------------------------------------------------------------------------
(* The embedding cache of VibeSearch (app/search.py, lines 32-164) and     *)
(* NoteService.load_notes (app/services/note_service.py)                   *)

Note(title, content) == [title |-> title, content |-> content]

\* f"{note['title']} {note['content']}"
NoteText(note) == note.title \o <<" ">> \o note.content

\* __init__, lines 37-45: the notes with a non-blank text and their
\* (0-based) positions
RECURSIVE IndexedTexts(_, _)
IndexedTexts(ns, i) ==
    IF i > Len(ns) THEN [texts |-> << >>, note_indices |-> << >>]
    ELSE LET rest == IndexedTexts(ns, i + 1)
             text == NoteText(ns[i])
         IN IF Strip(text) # EmptyStr
            THEN [texts |-> <<text>> \o rest.texts,
                  note_indices |-> <<i - 1>> \o rest.note_indices]
            ELSE rest

RECURSIVE Concat(_)
Concat(texts) == IF texts = << >> THEN << >> ELSE Head(texts) \o Concat(Tail(texts))

\* _compute_notes_hash: the MD5 digest of the texts fed one after the other
\* to update(); the digest is represented by the byte string it is taken of
_compute_notes_hash(texts) == Concat(texts)

\* model.encode(texts) of a model with the given embedding dimension: one
\* vector per text, a function of the text and the model alone
encode(texts, dimension) ==
    [i \in 1..Len(texts) |-> [vector_of |-> texts[i], dimension |-> dimension]]

\* _is_cache_valid: a hash file that does not parse counts as invalid
_is_cache_valid(files, current_hash, indices) ==
    /\ files.exists
    /\ ~files.torn_hash
    /\ files.hash = current_hash
    /\ files.note_count = Len(indices)

\* _load_embeddings_from_cache: [embeddings, encode_calls]; an archive that
\* np.load cannot read, or other indices, fall back to encoding
_load_embeddings_from_cache(files, texts, indices, dimension) ==
    IF files.torn_embeddings \/ files.cached_indices # indices
    THEN [embeddings |-> encode(texts, dimension), encode_calls |-> 1]
    ELSE [embeddings |-> files.embeddings, encode_calls |-> 0]

\* _save_embeddings_to_cache: both files written whole
_save_embeddings_to_cache(texts, indices, dimension, notes_hash) ==
    [exists |-> TRUE, hash |-> notes_hash, note_count |-> Len(indices),
     model_name |-> dimension, embeddings |-> encode(texts, dimension),
     cached_indices |-> indices,
     torn_embeddings |-> FALSE, torn_hash |-> FALSE]

\* load_or_compute_embeddings: [embeddings, message, encode_calls, files]
load_or_compute_embeddings(files, texts, indices, dimension) ==
    LET current_hash == _compute_notes_hash(texts)
    IN IF _is_cache_valid(files, current_hash, indices)
       THEN LET got == _load_embeddings_from_cache(files, texts, indices,
                                                   dimension)
            IN [embeddings |-> got.embeddings,
                message |-> "Loaded embeddings from cache",
                encode_calls |-> got.encode_calls,
                files |-> files]
       ELSE [embeddings |-> encode(texts, dimension),
             message |-> "Computed new embeddings and saved to cache",
             encode_calls |-> 1,
             files |-> _save_embeddings_to_cache(texts, indices, dimension,
                                                 current_hash)]

\* the notes of the model's exports
NotePool ==
    {Note(<<"x">>, <<"y", "z">>), Note(<< >>, <<"w">>),
     Note(<<"x">>, <<"y">>), Note(<<"z">>, <<"w">>)}

\* exports: lists of notes, and two with a note without title and content
Corpora ==
    SeqsUpTo(NotePool, MaxCorpus)
    \cup {<<Note(<< >>, << >>), Note(<<"x">>, <<"y">>)>>,
          <<Note(<<"x">>, <<"y">>), Note(<< >>, << >>)>>}

\* get_sentence_embedding_dimension() of the models a build can carry
\* (all-MiniLM-L6-v2 has 384)
ModelDimensions == {384, 768}

\* VibeSearch(notes): __init__ takes no force_refresh parameter, so passing
\* one raises TypeError before anything is computed
ConstructOver(corpora, dimensions) ==
    /\ \E ns \in corpora, force_refresh \in BOOLEAN, dimension \in dimensions :
          LET ix == IndexedTexts(ns, 1)
              out == load_or_compute_embeddings(cache_files, ix.texts,
                                                ix.note_indices, dimension)
          IN IF force_refresh
             THEN /\ loaded' = [LoadedIdle EXCEPT !.called = TRUE,
                                                  !.op = "VibeSearch",
                                                  !.force_refresh = TRUE,
                                                  !.raised = TRUE,
                                                  !.cache_before = cache_files]
                  /\ UNCHANGED cache_files
             ELSE /\ loaded' = [called |-> TRUE, op |-> "VibeSearch",
                                force_refresh |-> FALSE, raised |-> FALSE,
                                texts |-> ix.texts, indices |-> ix.note_indices,
                                dimension |-> dimension,
                                embeddings |-> out.embeddings,
                                how |-> out.message,
                                cache_before |-> cache_files]
                  /\ cache_files' = out.files
    /\ UNCHANGED <<search_vars, chunked, chunk_store, in_flight, fn, backend_vars, ret, cite, chat_vars>>

Construct == ConstructOver(Corpora, ModelDimensions)

\* NoteService.load_notes: it takes no force_refresh parameter, and its call
\* load_notes_from_cache(latest_mod_time) lacks the required current_hash;
\* both raise TypeError before parse_notes is reached
LoadNotes ==
    /\ \E force_refresh \in BOOLEAN :
          loaded' = [LoadedIdle EXCEPT !.called = TRUE, !.op = "load_notes",
                                       !.force_refresh = force_refresh,
                                       !.raised = TRUE,
                                       !.cache_before = cache_files]
    /\ UNCHANGED <<cache_files, search_vars, chunked, chunk_store, in_flight, fn, backend_vars, ret,
                   cite, chat_vars>>

InitCache ==
    BackendsAbsent /\ ret = RetIdle /\ cite = CiteIdle /\ ChatIdle /\ IndexIdle

NextCache == Construct \/ LoadNotes

SpecCache == InitCache /\ [][NextCache]_vars

-----------------------------------------------------------------------------
(* Properties of the caches, checked under SpecCache *)

Constructed == loaded.called /\ loaded.op = "VibeSearch" /\ ~loaded.raised

LoadedFromCache == loaded.how = "Loaded embeddings from cache"

\* the texts the cache on disk was computed from
CachedTexts(files) == [i \in 1..Len(files.embeddings) |-> files.embeddings[i].vector_of]

\* C14: embeddings are loaded from the cache if and only if the current
\* list of texts is identical (same count, same text at every position) to
\* the list the cache was computed from; what is loaded are the vectors of
\* the current texts.
C14_CacheHitIffSameTexts ==
    Constructed =>
        /\ LoadedFromCache <=>
              (loaded.cache_before.exists
               /\ CachedTexts(loaded.cache_before) = loaded.texts)
        /\ [i \in 1..Len(loaded.embeddings) |-> loaded.embeddings[i].vector_of]
              = loaded.texts

\* C15: a forced refresh recomputes the embeddings, respectively re-parses
\* the notes, also when a valid cache exists.
C15_ForcedRefreshRecomputes ==
    (loaded.called /\ loaded.force_refresh) =>
        /\ ~loaded.raised
        /\ loaded.how = "Computed new embeddings and saved to cache"

-----------------------------------------------------------------------------
(* The pure functions of the router as state machines: the argument is     *)
(* drawn by Init and one action applies the function.                      *)

\* words of the model's queries
QueryWords ==
    {"Summarize", "summary", "SUMMARY", "overview", "Who", "who", "is",
     "Compare", "budget"}

ClassifyQueries == SeqsUpTo(QueryWords, MaxWords)

InitClassify ==
    /\ BackendsAbsent /\ ret = RetIdle /\ cite = CiteIdle /\ ChatIdle
    /\ notes = Unannotated /\ last_search = SearchIdle
    /\ cache_files = NoCacheFiles /\ loaded = LoadedIdle
    /\ chunked = ChunkedIdle
    /\ chunk_store = ChunkStoreIdle
    /\ in_flight = NoneInFlight
    /\ \E query \in ClassifyQueries :
          fn = [FnIdle EXCEPT !.op = "_classify_rule_based", !.arg = query]

Classify ==
    /\ ~fn.called
    /\ fn.op = "_classify_rule_based"
    /\ fn' = [fn EXCEPT !.called = TRUE, !.result = _classify_rule_based(fn.arg)]
    /\ UNCHANGED <<search_vars, cache_vars, chunked, chunk_store, in_flight, backend_vars, ret, cite,
                   chat_vars>>

NextClassify == Classify

SpecClassify == InitClassify /\ [][NextClassify]_vars

\* a raw result with every key the conversion reads
FullRow(chunk_index) ==
    [id |-> <<"a">>, note_id |-> <<"b">>, title |-> <<"T">>,
     note_title |-> <<"U">>, matched_chunk |-> <<"m">>, text |-> <<"t">>,
     content |-> <<"c">>, score |-> 2, chunk_index |-> chunk_index,
     start_char_idx |-> 0, end_char_idx |-> 1, heading_trail |-> <<"H">>]

RowKeys == DOMAIN FullRow(0)

\* raw results of every shape: any subset of the keys
RawRows ==
    {[k \in K |-> FullRow(c)[k]] : K \in SUBSET RowKeys, c \in {0, 1, 2}}

InitGround ==
    /\ BackendsAbsent /\ ret = RetIdle /\ cite = CiteIdle /\ ChatIdle
    /\ notes = Unannotated /\ last_search = SearchIdle
    /\ cache_files = NoCacheFiles /\ loaded = LoadedIdle
    /\ chunked = ChunkedIdle
    /\ chunk_store = ChunkStoreIdle
    /\ in_flight = NoneInFlight
    /\ \E r \in RawRows :
          fn = [FnIdle EXCEPT !.op = "_results_to_grounded", !.arg = <<r>>]

Ground ==
    /\ ~fn.called
    /\ fn.op = "_results_to_grounded"
    /\ fn' = [fn EXCEPT !.called = TRUE,
                        !.result = _results_to_grounded(fn.arg, "lancedb")]
    /\ UNCHANGED <<search_vars, cache_vars, chunked, chunk_store, in_flight, backend_vars, ret, cite,
                   chat_vars>>

NextGround == Ground

SpecGround == InitGround /\ [][NextGround]_vars

-----------------------------------------------------------------------------
(* Properties of the classifier, checked under SpecClassify *)

SummaryHits(query) ==
    Cardinality({kw \in _SUMMARY_KEYWORDS : Occurs(kw, Lower(query))})
RelationalHits(query) ==
    Cardinality({kw \in _RELATIONAL_KEYWORDS : Occurs(kw, Lower(query))})

\* C18: with s summary keywords and r relational keywords occurring in the
\* lowercased query, the classification is SUMMARY iff s > r, RELATIONAL
\* iff r > s and FACTUAL iff s = r; it is never MIXED and is the same for
\* the query in lower case.
C18_RuleBasedClassification ==
    (fn.called /\ fn.op = "_classify_rule_based") =>
        LET s == SummaryHits(fn.arg)
            r == RelationalHits(fn.arg)
        IN /\ fn.result = "summary" <=> s > r
           /\ fn.result = "relational" <=> r > s
           /\ fn.result = "factual" <=> s = r
           /\ fn.result # "mixed"
           /\ fn.result = _classify_rule_based(Lower(fn.arg))

\* a query typed with capitals whose keywords tie
C18_Witness ==
    /\ fn.called /\ fn.op = "_classify_rule_based"
    /\ fn.arg # Lower(fn.arg)
    /\ SummaryHits(fn.arg) = RelationalHits(fn.arg)
    /\ SummaryHits(fn.arg) > 0
    /\ fn.result = "factual"

-----------------------------------------------------------------------------
(* Properties of the conversion, checked under SpecGround *)

\* C19: the item of a raw result has citation_id = note_id when the result
\* has no chunk index and note_id + "_c" + chunk_index when it has one
\* (chunk index 0 included); a missing id, title, text or heading trail
\* gives the empty string or list and a missing score gives 0.
C19_ResultsToGrounded ==
    (fn.called /\ fn.op = "_results_to_grounded") =>
        LET r == fn.arg[1]
            g == fn.result[1]
            has(k) == k \in DOMAIN r
        IN /\ Len(fn.result) = 1
           /\ ~has("chunk_index") => g.citation_id = g.note_id
           /\ has("chunk_index") =>
                 g.citation_id = g.note_id \o <<"_", "c">> \o IntToStr(r.chunk_index)
           /\ (~has("id") /\ ~has("note_id")) => g.note_id = EmptyStr
           /\ has("id") => g.note_id = r.id
           /\ (~has("title") /\ ~has("note_title")) => g.note_title = EmptyStr
           /\ (~has("matched_chunk") /\ ~has("text") /\ ~has("content"))
                 => g.text = EmptyStr
           /\ ~has("heading_trail") => g.heading_trail = << >>
           /\ ~has("score") => g.relevance_score = 0
           /\ has("score") => g.relevance_score = r.score

\* a result of chunk 0 without title, text and score
C19_Witness ==
    /\ fn.called /\ fn.op = "_results_to_grounded"
    /\ DOMAIN fn.arg[1] = {"id", "chunk_index"}
    /\ fn.arg[1].chunk_index = 0
    /\ fn.result[1].citation_id = <<"a", "_", "c", "0">>
    /\ fn.result[1].relevance_score = 0

-----------------------------------------------------------------------------
(* Citations of context items with long texts: extract_grounded_citations  *)
(* on items whose text is around the snippet length                        *)

TextOfLen(n) == [i \in 1..n |-> "x"]

SnippetTexts == {TextOfLen(3), TextOfLen(SnippetLen), TextOfLen(SnippetLen + 1)}

\* one GroundedContext object and one mapping per text
SnippetItems ==
    {AsObject([citation_id |-> <<"o">>, note_id |-> <<"a">>,
               note_title |-> <<"T">>, text |-> t, start_char_idx |-> None,
               end_char_idx |-> None, relevance_score |-> 1,
               source_type |-> "lancedb", heading_trail |-> << >>]) :
        t \in SnippetTexts}
    \cup {AsDict([citation_id |-> <<"d">>, note_id |-> <<"b">>,
                  note_title |-> <<"U">>, text |-> t]) : t \in SnippetTexts}
    \cup {AsDict([citation_id |-> <<"d">>, note_id |-> <<"b">>])}

SnippetMarkers == {Citation(<<"o">>), Citation(<<"d">>)}

InitSnippet ==
    /\ BackendsAbsent
    /\ ret = RetIdle
    /\ ChatIdle
    /\ IndexIdle
    /\ \E r \in SeqsUpTo(SnippetMarkers, MaxTokens),
          c \in SeqsUpTo(SnippetItems, MaxContext) :
          cite = [called |-> FALSE, response_text |-> r, context_items |-> c,
                  citations |-> << >>]

SpecSnippet == InitSnippet /\ [][NextCite]_vars

ItemText(item) ==
    IF IsObject(item) THEN item.v.text ELSE Get(item.v, "text", EmptyStr)

\* the text cut to the snippet length, with an ellipsis when it was cut
Truncated(text) ==
    IF Len(text) <= SnippetLen THEN text
    ELSE SubSeq(text, 1, SnippetLen) \o <<".", ".", ".">>

\* C20: the text_snippet of a resolved citation, whether its context item
\* is a GroundedContext object or a plain mapping, is the item's text when
\* that has at most 200 characters and its first 200 characters followed by
\* "..." when it is longer.
C20_SnippetTruncation ==
    cite.called =>
        \A k \in 1..Len(cite.citations) :
            LET c == cite.citations[k]
                holders == ItemsWithId(cite.context_items, c.citation_id)
            IN holders # {} =>
                  \E i \in holders :
                      /\ c.note_id = ItemNoteId(cite.context_items[i])
                      /\ c.text_snippet = Truncated(ItemText(cite.context_items[i]))

\* the same for the citations resolved to GroundedContext objects
C20_ObjectSnippets ==
    cite.called =>
        \A k \in 1..Len(cite.citations) :
            LET c == cite.citations[k]
                holders == ItemsWithId(cite.context_items, c.citation_id)
            IN (holders # {} /\ \A i \in holders : IsObject(cite.context_items[i]))
                  => \E i \in holders :
                        c.text_snippet = Truncated(ItemText(cite.context_items[i]))

-----------------------------------------------------------------------------
(* ChunkingService.build_chunks (app/services/chunking_service.py).  A     *)
(* paragraph is represented by its length, a merged chunk by the list of   *)
(* its paragraphs (joined by "\n\n"), a title by its length.  A paragraph  *)
(* of white space only, which _split_into_paragraphs never yields but a    *)
(* caller of _merge_paragraphs can pass, is represented by the negative of *)
(* its length, the empty paragraph by 0.                                   *)

MIN_CHUNK_LENGTH == 100
MAX_CHUNK_LENGTH == 1500
SHORT_NOTE_THRESHOLD == 500

RECURSIVE SumSeq(_)
SumSeq(s) == IF s = << >> THEN 0 ELSE Head(s) + SumSeq(Tail(s))

\* len(para)
ParagraphLen(para) == IF para < 0 THEN 0 - para ELSE para

\* len("\n\n".join(paragraphs))
JoinedLen(paragraphs) ==
    IF paragraphs = << >> THEN 0
    ELSE SumSeq([i \in 1..Len(paragraphs) |-> ParagraphLen(paragraphs[i])])
            + 2 * (Len(paragraphs) - 1)

\* mutant: a chunk is flushed whatever its length
FlushAlways(current) == TRUE

\* line 125: the chunk so far is long enough to be emitted
FlushAllowed(current) == JoinedLen(current) >= MIN_CHUNK_LENGTH

\* _merge_paragraphs, lines 120-129: [chunks, current]
RECURSIVE MergeLoop(_, _, _)
MergeLoop(paras, chunks, current) ==
    IF paras = << >> THEN [chunks |-> chunks, current |-> current]
    ELSE LET combined == Append(current, Head(paras))
         IN IF JoinedLen(combined) <= MAX_CHUNK_LENGTH
            THEN MergeLoop(Tail(paras), chunks, combined)
            ELSE IF FlushAllowed(current)
            THEN MergeLoop(Tail(paras), Append(chunks, current), <<Head(paras)>>)
            ELSE MergeLoop(Tail(paras), chunks, combined)

\* line 131: current.strip() is not empty
NotBlank(current) == \E i \in 1..Len(current) : current[i] > 0

\* mutant: a short remainder is left out instead of joined to the last chunk
_merge_paragraphs_without_remainder(paragraphs) ==
    IF paragraphs = << >> THEN << >>
    ELSE LET m == MergeLoop(Tail(paragraphs), << >>, <<Head(paragraphs)>>)
             n == Len(m.chunks)
         IN IF ~NotBlank(m.current) THEN m.chunks
            ELSE IF n > 0 /\ JoinedLen(m.current) < MIN_CHUNK_LENGTH
            THEN m.chunks
            ELSE Append(m.chunks, m.current)

\* _merge_paragraphs, lines 113-137
_merge_paragraphs(paragraphs) ==
    IF paragraphs = << >> THEN << >>
    ELSE LET m == MergeLoop(Tail(paragraphs), << >>, <<Head(paragraphs)>>)
             n == Len(m.chunks)
         IN IF ~NotBlank(m.current) THEN m.chunks
            ELSE IF n > 0 /\ JoinedLen(m.current) < MIN_CHUNK_LENGTH
            THEN [m.chunks EXCEPT ![n] = m.chunks[n] \o m.current]
            ELSE Append(m.chunks, m.current)

\* len(f"{title} {content}".strip()) for a title and a content without
\* surrounding white space
FullTextLen(title, content) ==
    IF title = 0 THEN content
    ELSE IF content = 0 THEN title
    ELSE title + 1 + content

\* build_chunks for one note: the chunks with their index, their paragraphs
\* and the length of their text
build_chunks(title, paragraphs) ==
    LET content == JoinedLen(paragraphs)
        full_text == FullTextLen(title, content)
    IN IF full_text = 0 THEN << >>
       ELSE IF full_text <= SHORT_NOTE_THRESHOLD
       THEN <<[chunk_index |-> 0, paragraphs |-> paragraphs,
               text_len |-> full_text]>>
       ELSE LET chunk_texts == _merge_paragraphs(paragraphs)
            IN [i \in 1..Len(chunk_texts) |->
                  [chunk_index |-> i - 1,
                   paragraphs |-> chunk_texts[i],
                   text_len |-> IF i = 1
                                THEN title + 1 + JoinedLen(chunk_texts[i])
                                ELSE JoinedLen(chunk_texts[i])]]

\* paragraph lengths and title lengths of the model's notes
ParagraphLengths == {40, 99, 700, 1400, 1490, 1600}
TitleLengths == {0, 5}

InitChunk ==
    /\ BackendsAbsent /\ ret = RetIdle /\ cite = CiteIdle /\ ChatIdle
    /\ notes = Unannotated /\ last_search = SearchIdle
    /\ cache_files = NoCacheFiles /\ loaded = LoadedIdle
    /\ chunk_store = ChunkStoreIdle
    /\ in_flight = NoneInFlight
    /\ fn = FnIdle
    /\ \E title \in TitleLengths, paragraphs \in SeqsUpTo(ParagraphLengths, MaxParas) :
          chunked = [ChunkedIdle EXCEPT !.title = title, !.paragraphs = paragraphs]

BuildChunks ==
    /\ ~chunked.called
    /\ chunked' = [chunked EXCEPT
                     !.called = TRUE,
                     !.chunks = build_chunks(chunked.title, chunked.paragraphs)]
    /\ UNCHANGED <<search_vars, cache_vars, chunk_store, in_flight, fn, backend_vars, ret, cite, chat_vars>>

NextChunk == BuildChunks

SpecChunk == InitChunk /\ [][NextChunk]_vars

-----------------------------------------------------------------------------
(* Properties of the chunker, checked under SpecChunk *)

LongNoteChunked ==
    chunked.called /\ JoinedLen(chunked.paragraphs) > SHORT_NOTE_THRESHOLD

\* the length of a chunk without the title prepended to chunk 0
BodyLen(chunk) == JoinedLen(chunk.paragraphs)

Regular(ps) ==
    \/ JoinedLen(ps) <= MAX_CHUNK_LENGTH
    \/ Len(ps) = 1
    \/ JoinedLen(SubSeq(ps, 1, Len(ps) - 1)) < MIN_CHUNK_LENGTH

-----------------------------------------------------------------------------
(* Claims about the history window                                         *)

LongHistory ==
    /\ prepared # << >>
    /\ Len(NonSystem(turn.messages)) > chat_summarization_threshold

\* C16: whenever the non-system messages of a turn exceed the configured
\* threshold, the message list sent to the LLM is the grounding system
\* prompt, exactly one summary message and the most recent
\* max_recent_messages non-system messages in their original order.
C16_SummaryThenRecentWindow ==
    LongHistory =>
        LET non_system == NonSystem(turn.messages)
            n == Len(non_system)
        IN /\ Len(prepared) = max_recent_messages + 2
           /\ prepared[1].role = "system"
           /\ prepared[1].content \in {<<"G">>, <<"N">>}
           /\ prepared[2].role = "system"
           /\ Head(prepared[2].content) = "S"
           /\ SubSeq(prepared, 3, Len(prepared))
                  = SubSeq(non_system, n - max_recent_messages + 1, n)

-----------------------------------------------------------------------------
(* extract_citations as a state machine: any response over the legacy      *)
(* markers and any ordered context of {"id", "title"} dicts                *)

\* context notes: with both keys, and without a title
LegacyNotePool ==
    {[id |-> <<"a">>, title |-> <<"T", "a">>], [id |-> <<"b">>]}

\* "[Note #N]" and "[Note #N, #M, ...]" markers with indices that are zero,
\* in range, out of range and repeated, and a marker of the other grammar
LegacyMarkerPool ==
    {NoteMarker(<<0>>), NoteMarker(<<1>>), NoteMarker(<<2>>), NoteMarker(<<3>>),
     NoteMarker(<<2, 1>>), NoteMarker(<<1, 1>>), NoteMarker(<<3, 0, 2>>),
     Citation(CidA0)}

InitLegacy ==
    /\ BackendsAbsent /\ ret = RetIdle /\ cite = CiteIdle /\ ChatIdle
    /\ notes = Unannotated /\ last_search = SearchIdle
    /\ cache_files = NoCacheFiles /\ loaded = LoadedIdle
    /\ chunked = ChunkedIdle
    /\ chunk_store = ChunkStoreIdle
    /\ in_flight = NoneInFlight
    /\ \E r \in SeqsUpTo(LegacyMarkerPool, MaxTokens),
          c \in SeqsUpTo(LegacyNotePool, MaxContext) :
          fn = [FnIdle EXCEPT !.op = "extract_citations",
                              !.arg = [response_text |-> r, context_notes |-> c]]

ExtractLegacy ==
    /\ ~fn.called
    /\ fn.op = "extract_citations"
    /\ fn' = [fn EXCEPT !.called = TRUE,
                        !.result = extract_citations(fn.arg.response_text,
                                                     fn.arg.context_notes)]
    /\ UNCHANGED <<search_vars, cache_vars, chunked, chunk_store, in_flight, backend_vars, ret, cite,
                   chat_vars>>

NextLegacy == ExtractLegacy

SpecLegacy == InitLegacy /\ [][NextLegacy]_vars

\* the indices of the legacy markers of a response, in text order
RECURSIVE LegacyIndices(_)
LegacyIndices(resp) ==
    IF resp = << >> THEN << >>
    ELSE IF Head(resp).kind = "note"
    THEN Head(resp).nums \o LegacyIndices(Tail(resp))
    ELSE LegacyIndices(Tail(resp))

\* positions of the first occurrence of every index that names an item
FirstValidPositions(indices, n) ==
    {i \in 1..Len(indices) :
        /\ 1 <= indices[i] /\ indices[i] <= n
        /\ \A j \in 1..(i - 1) : indices[j] # indices[i]}

LegacyCalled == fn.called /\ fn.op = "extract_citations"

\* C21: extract_citations maps each index N of the legacy markers to the
\* N-th (1-indexed) item of the context list; indices that are 0 or greater
\* than the list length are ignored, each index yields at most one citation
\* and the output follows first-occurrence order.
C21_LegacyIndexing ==
    LegacyCalled =>
        LET context_notes == fn.arg.context_notes
            indices == LegacyIndices(fn.arg.response_text)
            P == FirstValidPositions(indices, Len(context_notes))
        IN /\ Len(fn.result) = Cardinality(P)
           /\ \A k \in 1..Len(fn.result) :
                 LET num == indices[KthOf(P, k)]
                     note == context_notes[num]
                 IN /\ fn.result[k].note_number = num
                    /\ fn.result[k].note_id =
                          (IF "id" \in DOMAIN note THEN note.id ELSE EmptyStr)
                    /\ fn.result[k].note_title =
                          (IF "title" \in DOMAIN note THEN note.title
                           ELSE EmptyStr)

\* a response with a zero index, an out-of-range index and a repeated index
\* whose citations are the second item and then the first
C21_Witness ==
    /\ LegacyCalled
    /\ Len(fn.arg.context_notes) = 2
    /\ LegacyIndices(fn.arg.response_text) = <<3, 0, 2, 2, 1>>
    /\ Len(fn.result) = 2
    /\ fn.result[1].note_number = 2
    /\ fn.result[2].note_number = 1

-----------------------------------------------------------------------------
(* Claims about the done event                                             *)

\* the concatenation of the contents of the delta events, in emission order
RECURSIVE DeltaText(_)
DeltaText(evs) ==
    IF evs = << >> THEN << >>
    ELSE IF Head(evs).type = "delta"
    THEN Head(evs).content \o DeltaText(Tail(evs))
    ELSE DeltaText(Tail(evs))

DonePositions(evs) == {i \in 1..Len(evs) : evs[i].type = "done"}

EndsInDone ==
    /\ pc = "finished"
    /\ events # << >>
    /\ events[Len(events)].type = "done"

\* C22: in every run that ends in done, done.full_response is the
\* concatenation, in emission order, of the contents of the run's delta
\* events, and the citations are extracted once, after the last delta, from
\* that text against the context items of the context event.
C22_DoneCarriesDeltasAndCitations ==
    EndsInDone =>
        LET done == events[Len(events)]
            emitted == events[1].items
        IN /\ events[1].type = "context"
           /\ DonePositions(events) = {Len(events)}
           /\ done.full_response = DeltaText(events)
           /\ done.citations =
                 extract_grounded_citations(
                     done.full_response,
                     [i \in 1..Len(emitted) |-> AsObject(emitted[i])])

\* a done event after two different deltas, with a citation resolved against
\* the emitted context
C22_Witness ==
    /\ EndsInDone
    /\ Len(events) = 4
    /\ events[2].type = "delta"
    /\ events[3].type = "delta"
    /\ events[2].content # events[3].content
    /\ events[1].items # << >>
    /\ events[4].citations # << >>
    /\ events[4].full_response = events[2].content \o events[3].content

-----------------------------------------------------------------------------
(* VibeSearch.get_clusters (app/search.py): the cluster count handed to    *)
(* k-means for a corpus of n notes with text                               *)

\* DEFAULT_NUM_CLUSTERS
DEFAULT_NUM_CLUSTERS == 8

\* the largest corpus and the largest requested count of the model
MaxNotes == 12
MaxRequested == 20

\* int(len(self.note_indices) * 0.75)
ThreeQuarters(n) == (3 * n) \div 4

\* lines 370-379: [n_clusters, raised]; KMeans.fit_predict raises ValueError
\* when there are fewer samples than clusters
get_clusters(num_clusters, n) ==
    LET requested == IF num_clusters = None THEN DEFAULT_NUM_CLUSTERS
                     ELSE num_clusters[1]
        max_clusters == Max(2, ThreeQuarters(n))
        k == IF requested <= max_clusters THEN requested ELSE max_clusters
    IN [n_clusters |-> k, raised |-> n < k]

InitCluster ==
    /\ BackendsAbsent /\ ret = RetIdle /\ cite = CiteIdle /\ ChatIdle
    /\ notes = Unannotated /\ last_search = SearchIdle
    /\ cache_files = NoCacheFiles /\ loaded = LoadedIdle
    /\ chunked = ChunkedIdle
    /\ chunk_store = ChunkStoreIdle
    /\ in_flight = NoneInFlight
    /\ \E n \in 1..MaxNotes,
          num_clusters \in {None} \cup {Some(r) : r \in 1..MaxRequested} :
          fn = [FnIdle EXCEPT !.op = "get_clusters",
                              !.arg = [num_clusters |-> num_clusters, n |-> n]]

GetClusters ==
    /\ ~fn.called
    /\ fn.op = "get_clusters"
    /\ fn' = [fn EXCEPT !.called = TRUE,
                        !.result = get_clusters(fn.arg.num_clusters, fn.arg.n)]
    /\ UNCHANGED <<search_vars, cache_vars, chunked, chunk_store, in_flight, backend_vars, ret, cite,
                   chat_vars>>

NextCluster == GetClusters

SpecCluster == InitCluster /\ [][NextCluster]_vars

ClustersCalled == fn.called /\ fn.op = "get_clusters"

\* C23: for every corpus size n >= 1 and every requested cluster count, the
\* number of clusters asked of k-means is at most int(0.75 * n) and never
\* exceeds n.
C23_ClusterCountCapped ==
    ClustersCalled =>
        /\ fn.result.n_clusters <= ThreeQuarters(fn.arg.n)
        /\ fn.result.n_clusters <= fn.arg.n

-----------------------------------------------------------------------------
(* Claims about the notes cache, checked under SpecCache *)

NotesLoadCalled ==
    loaded.called /\ loaded.op = "load_notes" /\ ~loaded.force_refresh

\* C24: a load_notes() over an export directory completes without error,
\* a first one by parsing and a second one over the unchanged directory by
\* returning the same notes from the notes cache without the parser.
C24_LoadNotesCompletes ==
    NotesLoadCalled =>
        /\ ~loaded.raised
        /\ loaded.how \in {"Parsed notes from Google Keep export",
                           "Loaded notes from cache"}

-----------------------------------------------------------------------------
(* The cache save cut short: the process ends inside                       *)
(* _save_embeddings_to_cache (lines 129-146), which writes embeddings.npz  *)
(* in place and then notes_hash.json in place                              *)

SavePoints == {"in_embeddings", "between", "in_hash"}

\* the files left behind by a save that stopped at the given point
InterruptedSave(files, texts, indices, dimension, point) ==
    IF point = "in_embeddings"
    THEN [files EXCEPT !.embeddings = << >>, !.cached_indices = << >>,
                       !.torn_embeddings = TRUE]
    ELSE IF point = "between"
    THEN [files EXCEPT !.embeddings = encode(texts, dimension),
                       !.cached_indices = indices,
                       !.torn_embeddings = FALSE]
    ELSE [files EXCEPT !.embeddings = encode(texts, dimension),
                       !.cached_indices = indices,
                       !.torn_embeddings = FALSE,
                       !.exists = TRUE, !.hash = << >>, !.note_count = 0,
                       !.torn_hash = TRUE]

\* exports of one note with different texts, and one of two notes
CrashCorpora ==
    {<<Note(<<"x">>, <<"y", "z">>)>>, <<Note(<< >>, <<"w">>)>>,
     <<Note(<<"x">>, <<"y">>), Note(<<"z">>, <<"w">>)>>}

\* VibeSearch(notes) whose cache is not valid and whose save does not finish
SaveInterrupted ==
    /\ \E ns \in CrashCorpora, dimension \in ModelDimensions, point \in SavePoints :
          LET ix == IndexedTexts(ns, 1)
          IN /\ ~_is_cache_valid(cache_files, _compute_notes_hash(ix.texts),
                                 ix.note_indices)
             /\ cache_files' = InterruptedSave(cache_files, ix.texts,
                                               ix.note_indices, dimension, point)
             /\ loaded' = [LoadedIdle EXCEPT !.called = TRUE,
                                             !.op = "VibeSearch",
                                             !.raised = TRUE,
                                             !.how = "killed while saving",
                                             !.cache_before = cache_files]
    /\ UNCHANGED <<search_vars, chunked, chunk_store, in_flight, fn, backend_vars, ret, cite, chat_vars>>

\* VibeSearch(notes) of the next process
Restart == ConstructOver(CrashCorpora, ModelDimensions)

NextCrash == Restart \/ SaveInterrupted

SpecCrash == InitCache /\ [][NextCrash]_vars

\* the construction took its embeddings from the archive on disk
StoredEmbeddingsUsed ==
    /\ Constructed
    /\ LoadedFromCache
    /\ ~loaded.cache_before.torn_embeddings
    /\ loaded.cache_before.cached_indices = loaded.indices

\* C26: wherever a cache save is interrupted, no later
\* load_or_compute_embeddings accepts a cache whose stored embeddings were
\* not computed from the texts its hash file describes.
C26_InterruptedSaveNeverAccepted ==
    StoredEmbeddingsUsed =>
        /\ ~loaded.cache_before.torn_hash
        /\ _compute_notes_hash(CachedTexts(loaded.cache_before))
              = loaded.cache_before.hash
        /\ Len(loaded.cache_before.embeddings) = loaded.cache_before.note_count

\* C27: a cache produced by a model of another embedding dimension is
\* recomputed; the embeddings in memory always have the dimension of the
\* current model.
C27_DimensionOfCurrentModel ==
    Constructed =>
        /\ \A i \in 1..Len(loaded.embeddings) :
              loaded.embeddings[i].dimension = loaded.dimension
        /\ (loaded.cache_before.exists
            /\ loaded.cache_before.model_name # loaded.dimension)
              => ~LoadedFromCache

-----------------------------------------------------------------------------
(* The chunk list of ChunkingService, its embeddings and their cache       *)
(* (app/services/chunking_service.py, lines 52-225).  A chunk is its text. *)

\* _compute_chunks_hash: the digest of the chunk texts fed one after the
\* other to update(), represented by the byte string it is taken of
_compute_chunks_hash(chunks) == Concat(chunks)

\* self.model.encode(texts)
encode_chunks(texts) == [i \in 1..Len(texts) |-> [vector_of |-> texts[i]]]

\* ChunkingService._is_cache_valid
_chunk_cache_valid(files, current_hash, chunks) ==
    /\ files.exists
    /\ files.hash = current_hash
    /\ files.count = Len(chunks)

\* _load_from_cache: the stored rows, re-encoded when their number differs
_load_from_cache(files, chunks) ==
    IF Len(files.embeddings) # Len(chunks) THEN encode_chunks(chunks)
    ELSE files.embeddings

\* _save_to_cache
_save_to_cache(embeddings, chunks_hash, chunks) ==
    [exists |-> TRUE, hash |-> chunks_hash, count |-> Len(chunks),
     embeddings |-> embeddings]

\* chunk lists build_chunks produces for the exports of the model (a short
\* note without title is one chunk holding its content)
ChunkLists ==
    {<< >>, <<<<"a", "b">>>>, <<<<"c">>>>,
     <<<<"a", "b">>, <<"c">>>>, <<<<"a">>, <<"b", "c">>>>}

\* build_chunks, lines 59-60 and 76-104: the chunk list is replaced;
\* chunk_embeddings is not touched
BuildChunkList ==
    /\ \E chunks \in ChunkLists :
          chunk_store' = [chunk_store EXCEPT !.chunks = chunks]
    /\ UNCHANGED <<search_vars, cache_vars, chunked, in_flight, fn, backend_vars,
                   ret, cite, chat_vars>>

\* load_or_compute_embeddings, lines 139-156
LoadOrComputeChunks ==
    /\ LET chunks == chunk_store.chunks
           current_hash == _compute_chunks_hash(chunks)
       IN IF chunks = << >>
          THEN UNCHANGED chunk_store
          ELSE IF _chunk_cache_valid(chunk_store.files, current_hash, chunks)
          THEN chunk_store' =
                  [chunk_store EXCEPT
                     !.chunk_embeddings =
                        Some(_load_from_cache(chunk_store.files, chunks))]
          ELSE chunk_store' =
                  [chunk_store EXCEPT
                     !.chunk_embeddings = Some(encode_chunks(chunks)),
                     !.files = _save_to_cache(encode_chunks(chunks),
                                              current_hash, chunks)]
    /\ UNCHANGED <<search_vars, cache_vars, chunked, in_flight, fn, backend_vars,
                   ret, cite, chat_vars>>

\* search_chunks, lines 161-167: returns [] without embeddings or chunks,
\* else compares the query with every row of chunk_embeddings
SearchChunks ==
    /\ IF chunk_store.chunk_embeddings = None \/ chunk_store.chunks = << >>
       THEN chunk_store' =
               [chunk_store EXCEPT
                  !.read = [called |-> TRUE, used |-> FALSE, rows |-> << >>,
                            chunks |-> << >>]]
       ELSE chunk_store' =
               [chunk_store EXCEPT
                  !.read = [called |-> TRUE, used |-> TRUE,
                            rows |-> chunk_store.chunk_embeddings[1],
                            chunks |-> chunk_store.chunks]]
    /\ UNCHANGED <<search_vars, cache_vars, chunked, in_flight, fn, backend_vars,
                   ret, cite, chat_vars>>

\* a new process: the service is constructed again over the files on disk
RestartChunking ==
    /\ chunk_store' = [ChunkStoreIdle EXCEPT !.files = chunk_store.files]
    /\ UNCHANGED <<search_vars, cache_vars, chunked, in_flight, fn, backend_vars,
                   ret, cite, chat_vars>>

InitChunkStore ==
    BackendsAbsent /\ ret = RetIdle /\ cite = CiteIdle /\ ChatIdle /\ IndexIdle

NextChunkStore ==
    \/ BuildChunkList
    \/ LoadOrComputeChunks
    \/ SearchChunks
    \/ RestartChunking

SpecChunkStore == InitChunkStore /\ [][NextChunkStore]_vars

ChunkRowsRead == chunk_store.read.called /\ chunk_store.read.used

\* C25: whenever search_chunks reads chunk_embeddings, row i is the
\* embedding of chunks[i] (equal count, same text); a rebuild of the chunk
\* list never leaves embeddings of the previous list in use.
C25_ChunkEmbeddingsAligned ==
    ChunkRowsRead =>
        LET rows == chunk_store.read.rows
            chunks == chunk_store.read.chunks
        IN /\ Len(rows) = Len(chunks)
           /\ \A i \in 1..Len(rows) : rows[i].vector_of = chunks[i]

-----------------------------------------------------------------------------
(* The legacy conversation context of ChatService                          *)
(* (app/services/chat_service.py, lines 117-201 and 248-259).  A search    *)
(* result is [id, score]; merged scores are integers in tenths of the      *)
(* result scores, times 20 for every id of previous_ids gone through, so   *)
(* that the factor 1.15 = 23/20 stays exact.                               *)

PositionOf(seen, nid) ==
    IF \E i \in 1..Len(seen) : seen[i].id = nid
    THEN CHOOSE i \in 1..Len(seen) : seen[i].id = nid
    ELSE 0

\* lines 170-193: one result list merged into seen (a dict in insertion
\* order): score * add_weight is added to a known note, a new note enters
\* with score * new_weight
RECURSIVE MergePass(_, _, _, _)
MergePass(seen, results, add_weight, new_weight) ==
    IF results = << >> THEN seen
    ELSE LET note == Head(results)
             at == PositionOf(seen, note.id)
         IN MergePass(IF at # 0
                      THEN [seen EXCEPT ![at].score = @ + note.score * add_weight]
                      ELSE Append(seen, [id |-> note.id,
                                         score |-> note.score * new_weight]),
                      Tail(results), add_weight, new_weight)

\* lines 170-172: seen[nid] = {"note": note, "score": score * 1.0}
RECURSIVE PrimaryPass(_, _)
PrimaryPass(seen, results) ==
    IF results = << >> THEN seen
    ELSE LET note == Head(results)
             at == PositionOf(seen, note.id)
         IN PrimaryPass(IF at # 0
                        THEN [seen EXCEPT ![at].score = note.score * 10]
                        ELSE Append(seen, [id |-> note.id,
                                           score |-> note.score * 10]),
                        Tail(results))

\* the common factor of the scores after previous_ids
RECURSIVE BoostScale(_)
BoostScale(previous_ids) ==
    IF previous_ids = << >> THEN 1 ELSE 20 * BoostScale(Tail(previous_ids))

\* lines 195-198: seen[nid]["score"] *= 1.15 for every previous id
RECURSIVE BoostPass(_, _)
BoostPass(seen, previous_ids) ==
    IF previous_ids = << >> THEN seen
    ELSE BoostPass([i \in 1..Len(seen) |->
                      [seen[i] EXCEPT
                         !.score = IF seen[i].id = Head(previous_ids)
                                   THEN @ * 23 ELSE @ * 20]],
                   Tail(previous_ids))

\* _merge_and_rerank: [accumulated, boosted, scale, ranked]; previous_ids is
\* None or Some(list)
_merge_and_rerank(primary, context, topic, previous_ids, chunk_results) ==
    LET after_primary == PrimaryPass(<< >>, primary)
        after_context == MergePass(after_primary, context, 3, 5)
        after_topic == MergePass(after_context, topic, 4, 6)
        accumulated == MergePass(after_topic, chunk_results, 5, 8)
        boosted == IF previous_ids # None /\ previous_ids[1] # << >>
                   THEN BoostPass(accumulated, previous_ids[1])
                   ELSE accumulated
        ranked == SortedDesc(boosted, "score")
    IN [accumulated |-> accumulated,
        boosted |-> boosted,
        scale |-> IF previous_ids # None THEN BoostScale(previous_ids[1]) ELSE 1,
        ranked |-> [i \in 1..Len(ranked) |-> ranked[i].id]]

\* get_conversation_aware_context with the results of its searches
get_conversation_aware_context(searches, previous_note_ids) ==
    LET merged == _merge_and_rerank(searches.primary, searches.context,
                                    searches.topic, previous_note_ids,
                                    searches.chunks)
    IN [merged EXCEPT
          !.ranked = SubSeq(@, 1, IF Len(@) <= max_context_notes THEN Len(@)
                                  ELSE max_context_notes)]

\* generate_chat_completion, line 257: the context is asked for without
\* previous_note_ids
LegacyContext(searches) == get_conversation_aware_context(searches, None)

\* results of get_relevant_notes and search_chunks: ranked, one row per note
StickyRankings ==
    {<< >>,
     <<[id |-> <<"a">>, score |-> 8], [id |-> <<"b">>, score |-> 6]>>,
     <<[id |-> <<"b">>, score |-> 9]>>,
     <<[id |-> <<"c">>, score |-> 5], [id |-> <<"a">>, score |-> 4]>>}

TurnSearches ==
    [primary : StickyRankings, context : StickyRankings,
     topic : {<< >>, <<[id |-> <<"c">>, score |-> 7]>>},
     chunks : {<< >>, <<[id |-> <<"b">>, score |-> 3]>>}]

\* the conversation before its first turn
NoTurn ==
    [FnIdle EXCEPT !.op = "generate_chat_completion",
                   !.arg = [previous_context |-> << >>],
                   !.result = [accumulated |-> << >>, boosted |-> << >>,
                               scale |-> 1, ranked |-> << >>]]

InitSticky ==
    /\ BackendsAbsent /\ ret = RetIdle /\ cite = CiteIdle /\ ChatIdle
    /\ notes = Unannotated /\ last_search = SearchIdle
    /\ cache_files = NoCacheFiles /\ loaded = LoadedIdle
    /\ chunked = ChunkedIdle
    /\ chunk_store = ChunkStoreIdle
    /\ in_flight = NoneInFlight
    /\ fn = NoTurn

\* one turn of the conversation: the relevant notes of the turn before are
\* fn.result.ranked
LegacyTurn ==
    /\ fn.op = "generate_chat_completion"
    /\ \E searches \in TurnSearches :
          fn' = [called |-> TRUE, op |-> "generate_chat_completion",
                 arg |-> [previous_context |-> fn.result.ranked],
                 result |-> LegacyContext(searches)]
    /\ UNCHANGED <<search_vars, cache_vars, chunked, chunk_store, in_flight, backend_vars,
                   ret, cite, chat_vars>>

NextSticky == LegacyTurn

SpecSticky == InitSticky /\ [][NextSticky]_vars

\* C28: every note of the relevant context of turn t that is a merge
\* candidate at turn t+1 has its accumulated score multiplied by 1.15 before
\* the ranking of turn t+1; the other candidates get no boost.
C28_StickyBoost ==
    (fn.called /\ fn.op = "generate_chat_completion") =>
        \A i \in 1..Len(fn.result.accumulated) :
            LET was == fn.result.accumulated[i].score
                now == fn.result.boosted[i].score
                sticky == fn.result.accumulated[i].id
                             \in Range(fn.arg.previous_context)
            IN IF sticky THEN now * 20 = was * 23 * fn.result.scale
               ELSE now = was * fn.result.scale

-----------------------------------------------------------------------------
(* Search requests on one VibeSearch from the worker threads of the route  *)
(* (app/routes/search.py, lines 20-39: the handlers are plain def, which   *)
(* the framework runs in a thread pool).  A request goes through           *)
(* _image_search, the scoring loop and the copying of the results, and     *)
(* another thread can run between any two of them.                         *)

\* both notes of note_indices pass on their semantic score
ThreadSemanticScores == [i \in 1..Len(note_indices) |-> 10]

\* line 292 onwards: a request with a query that is not blank begins
BeginSearch(t) ==
    /\ in_flight[t].pc = "idle"
    /\ \E image_matches \in ImageMatchLists :
          in_flight' = [in_flight EXCEPT
                          ![t] = [ThreadIdle EXCEPT
                                    !.pc = "image_search",
                                    !.image_matches = image_matches]]
    /\ UNCHANGED <<search_vars, cache_vars, chunked, chunk_store, fn,
                   backend_vars, ret, cite, chat_vars>>

\* line 307: image_score_map = self._image_search(query)
ImageSearchStep(t) ==
    /\ in_flight[t].pc = "image_search"
    /\ LET img == _image_search(in_flight[t].image_matches, notes)
       IN /\ notes' = img.notes
          /\ in_flight' = [in_flight EXCEPT
                             ![t].pc = "scoring",
                             ![t].image_score_map = img.note_scores]
    /\ UNCHANGED <<last_search, cache_vars, chunked, chunk_store, fn,
                   backend_vars, ret, cite, chat_vars>>

\* lines 310-337: the scoring loop sets and deletes has_matching_images
ScoringStep(t) ==
    /\ in_flight[t].pc = "scoring"
    /\ notes' = FlagAll(notes, 1, in_flight[t].image_score_map)
    /\ in_flight' = [in_flight EXCEPT ![t].pc = "copying"]
    /\ UNCHANGED <<last_search, cache_vars, chunked, chunk_store, fn,
                   backend_vars, ret, cite, chat_vars>>

\* lines 340-350: the included notes are copied from self.notes as they are
\* at that moment
CopyStep(t) ==
    /\ in_flight[t].pc = "copying"
    /\ LET ranked == search(Len(note_indices), ThreadSemanticScores, << >>,
                            in_flight[t].image_matches, notes).results
       IN in_flight' =
             [in_flight EXCEPT
                ![t].pc = "returned",
                ![t].results =
                    [k \in 1..Len(ranked) |->
                       [note_idx |-> ranked[k].note_idx,
                        has_matching_images |->
                            notes[ranked[k].note_idx].has_matching_images,
                        matched_image |->
                            notes[ranked[k].note_idx].matched_image]]]
    /\ UNCHANGED <<search_vars, cache_vars, chunked, chunk_store, fn,
                   backend_vars, ret, cite, chat_vars>>

\* the response is sent and the thread is free again
EndSearch(t) ==
    /\ in_flight[t].pc = "returned"
    /\ in_flight' = [in_flight EXCEPT ![t] = ThreadIdle]
    /\ UNCHANGED <<search_vars, cache_vars, chunked, chunk_store, fn,
                   backend_vars, ret, cite, chat_vars>>

InitThreads ==
    BackendsAbsent /\ ret = RetIdle /\ cite = CiteIdle /\ ChatIdle /\ IndexIdle

NextThreads ==
    \E t \in Threads :
        \/ BeginSearch(t)
        \/ ImageSearchStep(t)
        \/ ScoringStep(t)
        \/ CopyStep(t)
        \/ EndSearch(t)

SpecThreads == InitThreads /\ [][NextThreads]_vars

\* the request of thread t had an image match for the note
OwnImageMatch(t, note_idx) == note_idx \in DOMAIN in_flight[t].image_score_map

\* the flag of every returned note follows the request's own image matches
FlagsOfOwnRequest ==
    \A t \in Threads :
        in_flight[t].pc = "returned" =>
            \A k \in 1..Len(in_flight[t].results) :
                in_flight[t].results[k].has_matching_images
                    <=> OwnImageMatch(t, in_flight[t].results[k].note_idx)

\* the image path of every returned note follows the request's own matches
ImagesOfOwnRequest ==
    \A t \in Threads :
        in_flight[t].pc = "returned" =>
            \A k \in 1..Len(in_flight[t].results) :
                in_flight[t].results[k].matched_image # None
                    <=> OwnImageMatch(t, in_flight[t].results[k].note_idx)

\* C29: when two searches interleave on one VibeSearch, the notes each
\* request returns carry has_matching_images and matched_image only
\* according to that request's own image matches.
C29_AnnotationsOfOwnRequest == FlagsOfOwnRequest /\ ImagesOfOwnRequest

-----------------------------------------------------------------------------
(* _merge_paragraphs called on its own, as the tests of                    *)
(* tests/test_chunking_service.py (lines 157-182) call it                  *)

\* paragraphs of a direct call: white space only (-1), empty (0), or text
MergeInputLengths == {-1, 0, 40, 99, 700, 1400, 1600}

InitMerge ==
    /\ BackendsAbsent /\ ret = RetIdle /\ cite = CiteIdle /\ ChatIdle
    /\ notes = Unannotated /\ last_search = SearchIdle
    /\ cache_files = NoCacheFiles /\ loaded = LoadedIdle
    /\ chunked = ChunkedIdle
    /\ chunk_store = ChunkStoreIdle
    /\ in_flight = NoneInFlight
    /\ \E paragraphs \in SeqsUpTo(MergeInputLengths, MaxParas) \ {<< >>} :
          fn = [FnIdle EXCEPT !.op = "_merge_paragraphs", !.arg = paragraphs]

MergeParagraphs ==
    /\ ~fn.called
    /\ fn.op = "_merge_paragraphs"
    /\ fn' = [fn EXCEPT !.called = TRUE, !.result = _merge_paragraphs(fn.arg)]
    /\ UNCHANGED <<search_vars, cache_vars, chunked, chunk_store, in_flight,
                   backend_vars, ret, cite, chat_vars>>

NextMerge == MergeParagraphs

SpecMerge == InitMerge /\ [][NextMerge]_vars

\* the paragraphs of all the chunks, in order
RECURSIVE Flattened(_)
Flattened(chunks) ==
    IF chunks = << >> THEN << >> ELSE Head(chunks) \o Flattened(Tail(chunks))

\* "\n\n".join(paragraphs) as the sequence of its pieces: a paragraph by its
\* representation, "\n\n" by [sep |-> 2], the empty paragraph by nothing
RECURSIVE Joined(_)
Joined(paragraphs) ==
    IF paragraphs = << >> THEN << >>
    ELSE LET piece == IF Head(paragraphs) = 0 THEN << >>
                      ELSE <<[para |-> Head(paragraphs)]>>
         IN IF Len(paragraphs) = 1 THEN piece
            ELSE piece \o <<[sep |-> 2]>> \o Joined(Tail(paragraphs))

MergeCalled == fn.called /\ fn.op = "_merge_paragraphs"

\* every paragraph of the call has a character that is not white space
NoBlankParagraph == \A i \in 1..Len(fn.arg) : fn.arg[i] > 0

====
